---- MODULE Spec2Model ----
(***************************************************************************)
(* Remote execution and job orchestration engine of SIEMply.               *)
(*                                                                         *)
(* The model covers the job lifecycle of backend/api/jobs.py, the command  *)
(* layer of backend/automation/utils.py and the procedures of              *)
(* backend/installers and backend/automation/splunk_installer.py.          *)
(*                                                                         *)
(* Python values are modelled as follows.  A dict is a function whose      *)
(* domain is the set of its keys (the empty dict and a None result are     *)
(* both the function with the empty domain: the code only tests them for   *)
(* truthiness).  A text is a sequence of words; the empty text and an      *)
(* unset text column are <<>>.  None in an integer or timestamp field is   *)
(* the value None below.  Every await of a command is one step of a task;  *)
(* the synchronous code between two awaits belongs to the step before it.  *)
(***************************************************************************)
EXTENDS Integers, Sequences, FiniteSets, TLC

\* Bounds of the model.
MaxJobs == 1
MaxTasks == 2
MaxCalls == 2

\* Python's None in an integer-valued field (return_code, timestamps).
None == -1

HostIds == {1}

\* ------------------------------------------------------------------------
\* Dict helpers (dict.get, dict.update, truthiness).

EmptyDict == [k \in {} |-> TRUE]

Get(d, k, default) == IF k \in DOMAIN d THEN d[k] ELSE default

Update(d, p) ==
    [k \in (DOMAIN d) \cup (DOMAIN p) |-> IF k \in DOMAIN p THEN p[k] ELSE d[k]]

Truthy(d) == DOMAIN d # {}

\* Python's "sub in text" on the texts of the model: both are word
\* sequences and the words of the model contain one another nowhere, so a
\* substring is a contiguous run of words.
TextContains(text, sub) ==
    \E i \in 0..(Len(text) - Len(sub)) :
        \A k \in 1..Len(sub) : text[i + k] = sub[k]

\* ------------------------------------------------------------------------
\* Enumerations of backend/models/job.py.

JobStatus == [PENDING |-> "pending", RUNNING |-> "running",
              COMPLETED |-> "completed", FAILED |-> "failed",
              CANCELLED |-> "cancelled"]

JobType == [SPLUNK_UF_INSTALL |-> "splunk_uf_install",
            SPLUNK_ENT_INSTALL |-> "splunk_ent_install",
            CRIBL_WORKER_INSTALL |-> "cribl_worker_install",
            CRIBL_LEADER_INSTALL |-> "cribl_leader_install",
            CUSTOM_COMMAND |-> "custom_command",
            PERMISSION_REPAIR |-> "permission_repair"]

StatusValues == {JobStatus[k] : k \in DOMAIN JobStatus}
TerminalStatus == {JobStatus.COMPLETED, JobStatus.FAILED, JobStatus.CANCELLED}

\* ------------------------------------------------------------------------
\* Defaults of the installers.

DEFAULT_SPLUNK_WEB_PORT == 8000
DEFAULT_CRIBL_API_PORT == 9000
DEFAULT_CRIBL_WORKER_PORT == 4200

DefaultsUF == [version |-> "9.1.1", install_dir |-> "/opt",
               admin_password |-> "changeme", user |-> "splunk",
               group |-> "splunk", is_dry_run |-> FALSE]

DefaultsEnt == [version |-> "9.1.1", install_dir |-> "/opt",
                admin_password |-> "changeme", user |-> "splunk",
                group |-> "splunk", web_port |-> DEFAULT_SPLUNK_WEB_PORT,
                is_dry_run |-> FALSE]

DefaultsLeader == [version |-> "3.4.1", install_dir |-> "/opt",
                   admin_password |-> "admin123", user |-> "cribl",
                   group |-> "cribl", api_port |-> DEFAULT_CRIBL_API_PORT,
                   is_dry_run |-> FALSE]

DefaultsWorker == [version |-> "3.4.1", install_dir |-> "/opt",
                   user |-> "cribl", group |-> "cribl",
                   leader_port |-> DEFAULT_CRIBL_WORKER_PORT,
                   is_dry_run |-> FALSE]

\* The procedures of the model.
InstallerProcs == {"install_splunk_universal_forwarder", "install_splunk_enterprise",
                   "install_cribl_leader", "install_cribl_worker"}
CustomProcs == {"run_custom_command", "run_bash_script"}

\* The directory under install_dir whose existence the pre-check tests.
InstallDirOf(proc) ==
    CASE proc = "install_splunk_universal_forwarder" -> "splunkforwarder"
      [] proc = "install_splunk_uf" -> "splunkforwarder"
      [] proc = "install_splunk_enterprise" -> "splunk"
      [] OTHER -> "cribl"

Dirs == {"splunkforwarder", "splunk", "cribl"}

\* ------------------------------------------------------------------------
\* run_command_with_timeout: the result dict for one command, by the way
\* the attempt ended:
\*   ok       connected, the command exited 0
\*   nonzero  connected, the command exited non-zero
\*   timeout  connected, asyncio.wait_for gave up (asyncio.TimeoutError)
\*   conn     ssh_client.connect() raised SSHConnectionError
CmdOutcomes == {"ok", "nonzero", "timeout", "conn"}

\* Outcomes in which the command reached the host.
SentOutcomes == {"ok", "nonzero", "timeout"}

\* The except clauses of run_command_with_timeout without the last one.
except_clauses_no_catch_all(result, exc) ==
    CASE exc = "asyncio.TimeoutError" ->
           Update(result, [timed_out |-> TRUE, message |-> "Command timed out"])
      [] exc = "SSHConnectionError" -> Update(result, [message |-> "Connection failed"])
      [] exc \in {"SSHCommandError", "SSHTimeoutError"} ->
           Update(result, [message |-> "SSH error"])
      [] OTHER -> [raised |-> exc]

\* The except clauses of run_command_with_timeout: the result after the
\* exception exc left the try block.  SSHCommandError and SSHTimeoutError
\* are caught as SSHClientError.
except_clauses(result, exc) ==
    CASE exc = "asyncio.TimeoutError" ->
           Update(result, [timed_out |-> TRUE, message |-> "Command timed out"])
      [] exc = "SSHConnectionError" -> Update(result, [message |-> "Connection failed"])
      [] exc \in {"SSHCommandError", "SSHTimeoutError"} ->
           Update(result, [message |-> "SSH error"])
      [] OTHER -> Update(result, [message |-> "Unexpected error"])

\* An outcome other than the four above is the class of the exception that
\* left execute_command.
run_command_with_timeout(command, outcome, stdout) ==
    LET result == [success |-> FALSE, command |-> command,
                   return_code |-> None, timed_out |-> FALSE]
    IN CASE outcome = "ok" ->
              Update(result, [return_code |-> 0, success |-> TRUE,
                              stdout |-> stdout, stderr |-> <<>>])
         [] outcome = "nonzero" ->
              Update(result, [return_code |-> 1, success |-> FALSE,
                              stdout |-> stdout, stderr |-> <<"stderr of", command>>])
         [] outcome = "timeout" -> except_clauses(result, "asyncio.TimeoutError")
         [] outcome = "conn" -> except_clauses(result, "SSHConnectionError")
         [] OTHER -> except_clauses(result, outcome)

\* AsyncSSHClient.run: the CommandResult of one command.  An exception of
\* execute_command (a timeout, an SSH error) is caught and becomes return
\* code 1 with no output.
run(command, outcome, stdout) ==
    CASE outcome = "ok" -> [returncode |-> 0, stdout |-> stdout, stderr |-> <<>>]
      [] outcome = "nonzero" ->
           [returncode |-> 1, stdout |-> stdout, stderr |-> <<"stderr of", command>>]
      [] OTHER -> [returncode |-> 1, stdout |-> <<>>, stderr |-> <<"error in", command>>]

\* ------------------------------------------------------------------------
\* The procedures as step programs.  A step is one command of the
\* procedure:
\*   cmd     the command
\*   listed  when it is appended to result["commands"]:
\*           "always", "real" (only when not a dry run) or "never"
\*   when    when it is run on the host: "always" or "real"
\*   kind    what the procedure does with the command's result:
\*           "check"        skip the install if stdout contains 'Found'
\*           "fatal"        on failure set the message, update the result
\*                          with the command's result and return
\*           "nonfatal"     the same, but continue
\*           "verify_uf"    on failure as fatal, else keep the verification
\*           "verify_cribl" keep the verification, on failure return
\*           "ignore"       the result is not looked at
\*           "exec"         update the result with the command's result
\*           "result"       the command's result is the returned result
\*           "check_uf"     return a failure if stdout is 'exists'
\*           "fatal_uf"     on a non-zero return code return a failure
\*   msg     the message of a failure of the step

StepRec(cmd, listed, when, kind, msg) ==
    [cmd |-> cmd, listed |-> listed, when |-> when, kind |-> kind, msg |-> msg]

StepsSplunk(isEnt, params) ==
    <<StepRec("check", "never", "always", "check", ""),
      StepRec("mkdir_tmp", "always", "real", "fatal", "Failed to create temporary directory"),
      StepRec("download", "always", "real", "fatal", "Failed to download installer"),
      StepRec("create_user", "always", "real", "fatal", "Failed to create user/group"),
      StepRec("extract", "always", "real", "fatal", "Failed to extract"),
      StepRec("chown", "always", "real", "fatal", "Failed to set ownership"),
      StepRec("seed", "always", "real", "fatal", "Failed to create user-seed.conf")>>
    \o (IF isEnt /\ params["web_port"] # DEFAULT_SPLUNK_WEB_PORT
        THEN <<StepRec("web_conf", "always", "real", "fatal", "Failed to configure web port")>>
        ELSE <<>>)
    \o <<StepRec("start", "always", "real", "fatal", "Failed to start"),
         StepRec("boot", "always", "real", "fatal", "Failed to enable boot-start"),
         StepRec("verify", "never", "real", "verify_uf",
                 "Installation completed but verification failed"),
         StepRec("cleanup", "always", "real", "ignore", "")>>

install_splunk_universal_forwarder(params) == StepsSplunk(FALSE, params)

install_splunk_enterprise(params) == StepsSplunk(TRUE, params)

StepsCriblHead ==
    <<StepRec("check", "never", "always", "check", ""),
      StepRec("mkdir_tmp", "always", "real", "fatal", "Failed to create temporary directory"),
      StepRec("download", "always", "real", "fatal", "Failed to download installer"),
      StepRec("create_user", "always", "real", "fatal", "Failed to create user/group"),
      StepRec("extract", "always", "real", "fatal", "Failed to extract"),
      StepRec("chown", "always", "real", "fatal", "Failed to set ownership")>>

StepsCriblTail ==
    <<StepRec("systemd", "always", "real", "fatal", "Failed to create systemd service"),
      StepRec("systemctl", "real", "real", "nonfatal", "Failed to enable Cribl service"),
      StepRec("start", "always", "real", "fatal", "Failed to start Cribl service"),
      StepRec("verify", "never", "real", "verify_cribl",
              "Installation completed but verification failed"),
      StepRec("cleanup", "always", "real", "ignore", "")>>

install_cribl_leader(params) ==
    StepsCriblHead
    \o <<StepRec("mode_master", "always", "real", "fatal", "Failed to configure Cribl as leader")>>
    \o (IF params["admin_password"] # ""
        THEN <<StepRec("passwd", "always", "real", "nonfatal", "Failed to set admin password")>>
        ELSE <<>>)
    \o (IF params["api_port"] # DEFAULT_CRIBL_API_PORT
        THEN <<StepRec("port", "always", "real", "fatal", "Failed to configure API port")>>
        ELSE <<>>)
    \o StepsCriblTail

install_cribl_worker(params) ==
    StepsCriblHead
    \o <<StepRec("mode_worker", "always", "real", "fatal", "Failed to configure Cribl as worker")>>
    \o StepsCriblTail

run_custom_command(params) ==
    (IF Get(params, "run_user", "root") # "root"
     THEN <<StepRec("create_run_user", "always", "real", "fatal", "Failed to create user")>>
     ELSE <<>>)
    \o <<StepRec("exec", "always", "real", "exec", "")>>

\* In a dry run the procedure returns right after listing the first
\* command, so the later commands are listed only in a real run.
run_bash_script(params) ==
    <<StepRec("create_script", "always", "real", "fatal", "Failed to create script file")>>
    \o (IF Get(params, "run_user", "root") # "root"
        THEN <<StepRec("create_run_user", "never", "real", "fatal", "Failed to create user"),
               StepRec("chown_script", "never", "real", "ignore", "")>>
        ELSE <<>>)
    \o <<StepRec("exec", "real", "real", "exec", ""),
         StepRec("rm_script", "never", "real", "ignore", "")>>

\* install_splunk_uf of backend/automation after its dry-run return.  The
\* download step stands for the probing of curl and wget and the attempts
\* over the download URLs: it fails when every method failed.  The validate
\* step stands for the checks of the downloaded file (the last of them
\* tries an extraction); the seed and start steps include their second
\* attempt.
install_splunk_uf(params) ==
    <<StepRec("mkdir_install_dir", "never", "real", "fatal_uf",
              "Failed to create installation directory"),
      StepRec("check", "never", "real", "check_uf", "Splunk UF is already installed"),
      StepRec("mkdir_tmp", "never", "real", "ignore", ""),
      StepRec("download", "never", "real", "fatal_uf", "Failed to download Splunk UF"),
      StepRec("verify_download", "never", "real", "fatal_uf",
              "Failed to verify Splunk UF download"),
      StepRec("validate", "never", "real", "fatal_uf",
              "Downloaded file does not appear to be a valid archive"),
      StepRec("extract", "never", "real", "fatal_uf", "Failed to extract Splunk UF"),
      StepRec("create_user", "never", "real", "ignore", ""),
      StepRec("chown", "never", "real", "ignore", ""),
      StepRec("config_dir", "never", "real", "ignore", ""),
      StepRec("seed", "never", "real", "fatal_uf", "Failed to create user-seed.conf")>>
    \o (IF Get(params, "deployment_server", "") # ""
        THEN <<StepRec("deploy", "never", "real", "fatal_uf",
                       "Failed to configure deployment client")>>
        ELSE <<>>)
    \o <<StepRec("start", "never", "real", "fatal_uf", "Failed to start Splunk UF"),
         StepRec("boot", "never", "real", "ignore", ""),
         StepRec("final_perms", "never", "real", "ignore", ""),
         StepRec("verify", "never", "real", "ignore", ""),
         StepRec("cleanup", "never", "real", "ignore", "")>>

\* The command the custom branch of _run_job builds from the job.
JobCustomCommand(job_type, params) ==
    IF job_type = "bash_script" THEN "script_cmd"
    ELSE IF Get(params, "user", "root") # "root" THEN "sudo_command"
    ELSE "command"

run_job_custom(job_type, params) ==
    <<StepRec(JobCustomCommand(job_type, params), "never", "real", "result", "")>>

\* The parameters a procedure works with: the defaults updated with the
\* caller's mapping (the custom procedures read the mapping itself).
ParamsOf(proc, parameters) ==
    CASE proc = "install_splunk_universal_forwarder" -> Update(DefaultsUF, parameters)
      [] proc = "install_splunk_enterprise" -> Update(DefaultsEnt, parameters)
      [] proc = "install_cribl_leader" -> Update(DefaultsLeader, parameters)
      [] proc = "install_cribl_worker" -> Update(DefaultsWorker, parameters)
      [] OTHER -> parameters

StepsOf(proc, job_type, parameters) ==
    LET params == ParamsOf(proc, parameters)
    IN CASE proc = "install_splunk_universal_forwarder" -> install_splunk_universal_forwarder(params)
         [] proc = "install_splunk_enterprise" -> install_splunk_enterprise(params)
         [] proc = "install_cribl_leader" -> install_cribl_leader(params)
         [] proc = "install_cribl_worker" -> install_cribl_worker(params)
         [] proc = "run_custom_command" -> run_custom_command(params)
         [] proc = "run_bash_script" -> run_bash_script(params)
         [] proc = "install_splunk_uf" -> install_splunk_uf(params)
         [] OTHER -> run_job_custom(job_type, params)

\* Commands that change the host; the existence check and the status query
\* only read it.
ReadOnlyCmds == {"check", "verify", "verify_download"}
Mutating(cmd) == cmd \notin ReadOnlyCmds

\* ------------------------------------------------------------------------
\* Running a procedure: from its entry, or from the result of the command
\* it awaited, up to the next command it awaits or to its return.  The
\* value is a record
\*   st    "awaiting" (the command steps[pc] is issued), "returned" or "raised"
\*   pc    the index of the awaited step
\*   res   the result dict built so far, or the returned result
\*   role  the role a completed install adds to host.roles, or ""
\*   exc   the text of the exception raised

Awaiting(pc, res) == [st |-> "awaiting", pc |-> pc, res |-> res, role |-> "", exc |-> ""]
Returned(res) == [st |-> "returned", pc |-> 0, res |-> res, role |-> "", exc |-> ""]
Raised(exc) == [st |-> "raised", pc |-> 0, res |-> EmptyDict, role |-> "", exc |-> exc]

RoleOf(proc) ==
    CASE proc = "install_splunk_universal_forwarder" -> "splunk_uf"
      [] proc = "install_splunk_enterprise" -> "splunk_enterprise"
      [] proc = "install_cribl_leader" -> "cribl_leader"
      [] proc = "install_cribl_worker" -> "cribl_worker"
      [] OTHER -> ""

\* The end of a procedure, reached when no step made it return earlier.
Final(proc, steps, dry, res) ==
    CASE proc \in InstallerProcs ->
           [Returned(Update(res, [success |-> TRUE, message |-> "installed successfully"]))
              EXCEPT !.role = RoleOf(proc)]
      [] proc \in CustomProcs ->
           IF dry
           THEN Returned(Update(res, [success |-> TRUE, message |-> "Dry run completed"]))
           ELSE Returned(Update(res, [message |-> IF res["success"]
                                                  THEN "executed successfully"
                                                  ELSE "execution failed"]))
      [] proc = "install_splunk_uf" ->
           Returned([success |-> TRUE, message |-> "Successfully installed Splunk UF"])
      [] OTHER ->
           Returned([success |-> TRUE, is_dry_run |-> TRUE, command |-> steps[1].cmd,
                     message |-> "Dry run - command would be executed"])

\* From the point before step i: list the commands and skip the steps a
\* dry run does not run, up to the next step that is run.
RECURSIVE Advance(_, _, _, _, _)
Advance(proc, steps, dry, res, i) ==
    IF i > Len(steps) THEN Final(proc, steps, dry, res)
    ELSE LET s == steps[i]
             listed == s.listed = "always" \/ (s.listed = "real" /\ ~dry)
             res1 == IF listed
                     THEN [res EXCEPT !["commands"] = Append(@, s.cmd)]
                     ELSE res
         IN IF s.when = "always" \/ ~dry
            THEN Awaiting(i, res1)
            ELSE Advance(proc, steps, dry, res1, i + 1)

\* What the procedure does with the result r of the awaited step i.
After(proc, steps, dry, res, i, r) ==
    LET s == steps[i]
        failed == Update(Update(res, [message |-> s.msg]), r)
    IN CASE s.kind = "check" ->
              IF TextContains(Get(r, "stdout", <<>>), <<"Found">>)
              THEN Returned(Update(res, [success |-> TRUE, skipped |-> TRUE,
                                         message |-> "already installed"]))
              ELSE Advance(proc, steps, dry, res, i + 1)
         [] s.kind = "fatal" ->
              IF ~r["success"] THEN Returned(failed)
              ELSE Advance(proc, steps, dry, res, i + 1)
         [] s.kind = "nonfatal" ->
              IF ~r["success"] THEN Advance(proc, steps, dry, failed, i + 1)
              ELSE Advance(proc, steps, dry, res, i + 1)
         [] s.kind = "verify_uf" ->
              IF ~r["success"] THEN Returned(failed)
              ELSE Advance(proc, steps, dry, Update(res, [verification |-> r]), i + 1)
         [] s.kind = "verify_cribl" ->
              IF ~r["success"]
              THEN Returned(Update(res, [verification |-> r, message |-> s.msg]))
              ELSE Advance(proc, steps, dry, Update(res, [verification |-> r]), i + 1)
         [] s.kind = "exec" ->
              Advance(proc, steps, dry, Update(res, r), i + 1)
         [] s.kind = "result" -> Returned(r)
         [] s.kind = "check_uf" ->
              IF r.stdout = <<"exists">>
              THEN Returned([success |-> FALSE, message |-> s.msg])
              ELSE Advance(proc, steps, dry, res, i + 1)
         [] s.kind = "fatal_uf" ->
              IF r.returncode # 0
              THEN Returned([success |-> FALSE, message |-> s.msg])
              ELSE Advance(proc, steps, dry, res, i + 1)
         [] OTHER -> Advance(proc, steps, dry, res, i + 1)

\* The dry-run flag a procedure works with.
DryOf(proc, parameters, job_is_dry_run) ==
    IF proc = "run_job_custom" THEN job_is_dry_run
    ELSE Get(ParamsOf(proc, parameters), "is_dry_run", FALSE)

\* The entry of a procedure: the validation of its parameters, the base
\* result, and the code up to the first command it runs.
Begin(proc, job_type, parameters, dry) ==
    LET params == ParamsOf(proc, parameters)
        steps == StepsOf(proc, job_type, parameters)
        base == [success |-> FALSE, is_dry_run |-> dry, commands |-> <<>>]
    IN CASE proc = "install_cribl_worker" /\ "leader_host" \notin DOMAIN params ->
              Returned([success |-> FALSE, is_dry_run |-> dry,
                        message |-> "Missing required parameter: leader_host"])
         [] proc = "install_cribl_worker" /\ "authentication_token" \notin DOMAIN params ->
              Returned([success |-> FALSE, is_dry_run |-> dry,
                        message |-> "Missing required parameter: authentication_token"])
         [] proc = "run_custom_command" /\ "command" \notin DOMAIN parameters ->
              Returned([success |-> FALSE, return_code |-> 1,
                        message |-> "Command parameter is required"])
         [] proc = "run_bash_script" /\ ~Truthy(parameters) ->
              Returned([success |-> FALSE, return_code |-> 1,
                        message |-> "Parameters are required"])
         [] proc = "run_job_custom" /\ Get(parameters, "command", "") = "" ->
              Raised("No command specified for custom job")
         [] OTHER -> Advance(proc, steps, dry, base, 1)

\* ------------------------------------------------------------------------
\* State.
\*   hosts     the ids of the host records of the database
\*   roles     host.roles of each host record
\*   remote    the machine behind the host: the install directories that
\*             exist and whether the temporary download directory exists
\*   jobs      the job records, by id (the index)
\*   tasks     the invocations of _run_job and the direct calls of a
\*             procedure: their position and the commands they sent
\*   now       the clock read by datetime.utcnow()
\*   response  the response to the last request
\*   ssh       a call into the SSH layer: the client it created, the
\*             connection attempts and the sleeps of connect()
\*   dl        the checks install_splunk_uf makes of the file it downloaded
VARIABLES hosts, roles, remote, jobs, tasks, now, response, ssh, dl, repair, auth, lookup

vars == <<hosts, roles, remote, jobs, tasks, now, response, ssh, dl, repair, auth, lookup>>

\* install_splunk_uf has downloaded nothing.
NoDownload ==
    [pc |-> "idle", file |-> [kind |-> "none", size |-> <<>>, type |-> <<>>, tar |-> FALSE],
     file_cmd |-> FALSE, valid_file |-> FALSE, sent |-> <<>>, message |-> "",
     urls |-> 0, url |-> 0, has_curl |-> FALSE, has_wget |-> FALSE,
     content |-> "absent", attempts |-> <<>>]

\* repair_splunk_permissions has not been called.
NoRepair ==
    [pc |-> "idle", session |-> FALSE, dir_exists |-> FALSE, same_group |-> FALSE,
     sent |-> <<>>, codes |-> <<>>, result |-> EmptyDict]

\* connect() has not been called.
NoConnect ==
    [st |-> "idle", host_key_path |-> "", key_path |-> "", password |-> "",
     retries_left |-> 0, kwargs |-> <<>>]

\* get_package_download_url has not been called.
NoLookup ==
    [st |-> "idle", query |-> "none", architecture |-> "",
     package |-> [downloads |-> <<>>, download_url |-> ""], url |-> ""]

\* No call into the SSH layer has begun.
NoSshCall ==
    [fn |-> "", st |-> "idle", retries |-> 0, retries_left |-> 0, tries |-> <<>>,
     sleeps |-> <<>>, last_exception |-> "", error |-> "", open |-> FALSE,
     client |-> 0, sessions |-> <<>>, log |-> <<>>, event |-> "", exc |-> "",
     result |-> EmptyDict]

NewJob(host_id, job_type, is_dry_run, parameters) ==
    [host_id |-> host_id, job_type |-> job_type, status |-> JobStatus.PENDING,
     is_dry_run |-> is_dry_run, parameters |-> parameters,
     started_at |-> None, completed_at |-> None, return_code |-> None,
     stdout |-> <<>>, stderr |-> <<>>, result |-> EmptyDict]

\* A scheduled invocation of _run_job (job > 0) or a call of a procedure
\* (job = 0).  sent is the sequence of the commands that reached the host
\* and outs the sequence of the commands it ran with the way each ended.
NewTask(job, host, proc, job_type, parameters, dry) ==
    [job |-> job, host |-> host, proc |-> proc, job_type |-> job_type, parameters |-> parameters,
     dry |-> dry, st |-> "scheduled", pc |-> 0, res |-> EmptyDict,
     sent |-> <<>>, outs |-> <<>>, invoked |-> FALSE, marked |-> FALSE, exc |-> ""]

Resp(op, code, job) == [op |-> op, code |-> code, job |-> job]

Init ==
    /\ hosts = HostIds
    /\ roles = [h \in HostIds |-> <<>>]
    /\ remote \in [installed : {{}, Dirs}, tmp : {FALSE}]
    /\ jobs = <<>>
    /\ tasks = <<>>
    /\ now = 1
    /\ response = Resp("none", 0, 0)
    /\ ssh = NoSshCall
    /\ dl = NoDownload
    /\ repair = NoRepair
    /\ auth = NoConnect
    /\ lookup = NoLookup

\* ------------------------------------------------------------------------
\* The submit endpoints.

Reject(op, code, job) ==
    /\ response' = Resp(op, code, job)
    /\ UNCHANGED <<lookup, auth, repair, dl, ssh, hosts, roles, remote, jobs, tasks, now>>

\* Job(...), db.add, db.commit, without the add_task.
CreateJobNoDispatch(op, host_id, job_type, is_dry_run, parameters) ==
    /\ jobs' = Append(jobs, NewJob(host_id, job_type, is_dry_run, parameters))
    /\ response' = Resp(op, 200, Len(jobs) + 1)
    /\ UNCHANGED <<lookup, auth, repair, dl, ssh, hosts, roles, remote, now, tasks>>

\* Job(...), db.add, db.commit, background_tasks.add_task(_run_job, job.id).
CreateJob(op, host_id, job_type, is_dry_run, parameters) ==
    /\ jobs' = Append(jobs, NewJob(host_id, job_type, is_dry_run, parameters))
    /\ tasks' = Append(tasks, NewTask(Len(jobs) + 1, host_id, "", job_type, parameters, FALSE))
    /\ response' = Resp(op, 200, Len(jobs) + 1)
    /\ UNCHANGED <<lookup, auth, repair, dl, ssh, hosts, roles, remote, now>>

\* The parameter mappings the requests of the model carry.
UFParams ==
    {[version |-> "9.4.3", user |-> "splunk"],
     [version |-> "9.4.3", user |-> "splunk", is_dry_run |-> TRUE],
     [version |-> "9.4.3", user |-> "splunk", is_dry_run |-> FALSE],
     [version |-> "9.4.3", user |-> "splunk", admin_password |-> ""],
     [version |-> "9.4.3"]}

EntParams ==
    {EmptyDict, [is_dry_run |-> TRUE], [web_port |-> 8443],
     [web_port |-> 8443, is_dry_run |-> TRUE]}

LeaderParams ==
    {EmptyDict, [is_dry_run |-> TRUE], [admin_password |-> ""],
     [api_port |-> 9100], [api_port |-> 9100, is_dry_run |-> TRUE]}

WorkerParams ==
    {EmptyDict, [leader_host |-> "leader"],
     [leader_host |-> "leader", authentication_token |-> "token"],
     [leader_host |-> "leader", authentication_token |-> "token", is_dry_run |-> TRUE]}

CustomParams ==
    {EmptyDict, [command |-> ""], [command |-> "ls"],
     [command |-> "ls", user |-> "svc"]}

create_splunk_uf_install_job ==
    \E host_id \in HostIds, parameters \in UFParams, is_dry_run \in BOOLEAN :
        /\ Len(jobs) < MaxJobs
        /\ IF host_id \notin hosts THEN Reject("create_splunk_uf_install_job", 404, 0)
           ELSE IF {"version", "user"} \ DOMAIN parameters # {}
                THEN Reject("create_splunk_uf_install_job", 422, 0)
           ELSE CreateJob("create_splunk_uf_install_job", host_id,
                          JobType.SPLUNK_UF_INSTALL, is_dry_run, parameters)

create_splunk_enterprise_install_job ==
    \E host_id \in HostIds, parameters \in EntParams, is_dry_run \in BOOLEAN :
        /\ Len(jobs) < MaxJobs
        /\ IF host_id \notin hosts THEN Reject("create_splunk_enterprise_install_job", 404, 0)
           ELSE CreateJob("create_splunk_enterprise_install_job", host_id,
                          JobType.SPLUNK_ENT_INSTALL, is_dry_run, parameters)

create_cribl_worker_install_job ==
    \E host_id \in HostIds, parameters \in WorkerParams, is_dry_run \in BOOLEAN :
        /\ Len(jobs) < MaxJobs
        /\ IF host_id \notin hosts THEN Reject("create_cribl_worker_install_job", 404, 0)
           ELSE CreateJob("create_cribl_worker_install_job", host_id,
                          JobType.CRIBL_WORKER_INSTALL, is_dry_run, parameters)

create_cribl_leader_install_job ==
    \E host_id \in HostIds, parameters \in LeaderParams, is_dry_run \in BOOLEAN :
        /\ Len(jobs) < MaxJobs
        /\ IF host_id \notin hosts THEN Reject("create_cribl_leader_install_job", 404, 0)
           ELSE CreateJob("create_cribl_leader_install_job", host_id,
                          JobType.CRIBL_LEADER_INSTALL, is_dry_run, parameters)

\* POST /jobs/custom with the query parameter job_type.
create_custom_job_of(job_type) ==
    \E host_id \in HostIds, parameters \in CustomParams, is_dry_run \in BOOLEAN :
        /\ Len(jobs) < MaxJobs
        /\ IF host_id \notin hosts THEN Reject("create_custom_job", 404, 0)
           ELSE IF job_type \notin {"custom_command", "bash_script"}
                THEN Reject("create_custom_job", 400, 0)
           ELSE CreateJob("create_custom_job", host_id,
                          JobType.CUSTOM_COMMAND, is_dry_run, parameters)

create_custom_job ==
    \E job_type \in {"custom_command", "bash_script", "other"} : create_custom_job_of(job_type)

\* ------------------------------------------------------------------------
\* cancel_job and delete_host.

\* cancel_job without its check of the status.
cancel_job_unguarded(job_id) ==
    IF job_id > Len(jobs) THEN Reject("cancel_job", 404, job_id)
    ELSE /\ jobs' = [jobs EXCEPT ![job_id].status = JobStatus.CANCELLED,
                                 ![job_id].completed_at = now]
         /\ now' = now + 1
         /\ response' = Resp("cancel_job", 200, job_id)
         /\ UNCHANGED <<lookup, auth, repair, dl, ssh, hosts, roles, remote, tasks>>

cancel_job(job_id) ==
    IF job_id > Len(jobs) THEN Reject("cancel_job", 404, job_id)
    ELSE IF jobs[job_id].status # JobStatus.PENDING THEN Reject("cancel_job", 400, job_id)
    ELSE /\ jobs' = [jobs EXCEPT ![job_id].status = JobStatus.CANCELLED,
                                 ![job_id].completed_at = now]
         /\ now' = now + 1
         /\ response' = Resp("cancel_job", 200, job_id)
         /\ UNCHANGED <<lookup, auth, repair, dl, ssh, hosts, roles, remote, tasks>>

delete_host(host_id) ==
    /\ host_id \in hosts
    /\ hosts' = hosts \ {host_id}
    /\ response' = Resp("delete_host", 204, 0)
    /\ UNCHANGED <<lookup, auth, repair, dl, ssh, roles, remote, jobs, tasks, now>>

\* ------------------------------------------------------------------------
\* _run_job.

\* The if/elif chain over job.job_type: the procedure of a job type, or ""
\* when no branch matches and result stays None.
ProcForJobType(job_type) ==
    CASE job_type = JobType.SPLUNK_UF_INSTALL -> "install_splunk_universal_forwarder"
      [] job_type = JobType.SPLUNK_ENT_INSTALL -> "install_splunk_enterprise"
      [] job_type = JobType.CRIBL_WORKER_INSTALL -> "install_cribl_worker"
      [] job_type = JobType.CRIBL_LEADER_INSTALL -> "install_cribl_leader"
      [] job_type = JobType.CUSTOM_COMMAND -> "run_job_custom"
      [] OTHER -> ""

\* The first lines of _run_job for a job whose host exists.
MarkRunning(job, t) ==
    [job EXCEPT !.status = JobStatus.RUNNING, !.started_at = t]

\* The branch of _run_job for a job whose host record is gone.
HostNotFound(job) ==
    [job EXCEPT !.status = JobStatus.FAILED, !.stderr = <<"Host not found">>]

\* "Update job with result" with the status taken from the return code.
RecordResultByReturnCode(job, res) ==
    IF Truthy(res)
    THEN [job EXCEPT !.return_code = Get(res, "return_code", None),
                     !.stdout = Get(res, "stdout", <<>>),
                     !.stderr = Get(res, "stderr", <<>>),
                     !.result = res,
                     !.status = IF Get(res, "return_code", None) = 0
                                THEN JobStatus.COMPLETED ELSE JobStatus.FAILED]
    ELSE job

\* "Update job with result": the procedure returned o.res.
RecordResult(job, res) ==
    IF Truthy(res)
    THEN [job EXCEPT !.return_code = Get(res, "return_code", None),
                     !.stdout = Get(res, "stdout", <<>>),
                     !.stderr = Get(res, "stderr", <<>>),
                     !.result = res,
                     !.status = IF Get(res, "success", FALSE)
                                THEN JobStatus.COMPLETED ELSE JobStatus.FAILED]
    ELSE job

\* The except clause without its assignment of the status.
RecordErrorKeepStatus(job, exc) ==
    [job EXCEPT !.stderr = <<"Error executing job:", exc>>]

\* "except Exception as e": the procedure raised o.exc.
RecordError(job, exc) ==
    [job EXCEPT !.status = JobStatus.FAILED,
                !.stderr = <<"Error executing job:", exc>>]

\* The end of _run_job: the outcome o of the procedure is recorded and the
\* job is stamped.
Finish(job, o, t) ==
    LET job1 == IF o.st = "raised" THEN RecordError(job, o.exc)
                ELSE RecordResult(job, o.res)
    IN [job1 EXCEPT !.completed_at = t]

\* host.roles after a procedure ended with outcome o.
AddRole(rs, role) == IF role = "" \/ \E i \in 1..Len(rs) : rs[i] = role THEN rs
                     ELSE Append(rs, role)

\* The task tk (already holding what it sent) goes on with the outcome o of
\* its procedure; job1 is its job record and t the clock before the end of
\* _run_job.
Settle(n, tk, job1, t, o) ==
    IF o.st = "awaiting"
    THEN /\ tasks' = [tasks EXCEPT ![n] = [tk EXCEPT !.st = "awaiting", !.pc = o.pc,
                                                       !.res = o.res]]
         /\ jobs' = IF tk.job > 0 THEN [jobs EXCEPT ![tk.job] = job1] ELSE jobs
         /\ now' = t
         /\ UNCHANGED roles
    ELSE /\ tasks' = [tasks EXCEPT ![n] = [tk EXCEPT !.st = IF tk.job > 0 THEN "done" ELSE o.st,
                                                       !.pc = 0, !.res = o.res,
                                                       !.exc = o.exc]]
         /\ jobs' = IF tk.job > 0 THEN [jobs EXCEPT ![tk.job] = Finish(job1, o, t)] ELSE jobs
         /\ now' = IF tk.job > 0 THEN t + 1 ELSE t
         /\ roles' = [roles EXCEPT ![tk.host] = AddRole(@, o.role)]

\* A scheduled _run_job starts: it loads the job and the host and marks the
\* job running (or failed, when the host record is gone).
run_job(n) ==
    /\ tasks[n].st = "scheduled"
    /\ LET tk == tasks[n]
           job == jobs[tk.job]
       IN IF job.host_id \notin hosts
          THEN /\ jobs' = [jobs EXCEPT ![tk.job] = HostNotFound(job)]
               /\ tasks' = [tasks EXCEPT ![n].st = "done"]
               /\ UNCHANGED now
          ELSE /\ jobs' = [jobs EXCEPT ![tk.job] = MarkRunning(job, now)]
               /\ tasks' = [tasks EXCEPT ![n].st = "started", ![n].marked = TRUE]
               /\ now' = now + 1
    /\ UNCHANGED <<lookup, auth, repair, dl, ssh, hosts, roles, remote, response>>

\* The try block of _run_job up to the first command it awaits: the branch
\* of the job's type is taken and its procedure entered.  A call of a
\* procedure outside a job enters the procedure the same way.
run_procedure(n) ==
    /\ tasks[n].st = "started"
    /\ LET tk == tasks[n]
           proc == IF tk.job > 0 THEN ProcForJobType(jobs[tk.job].job_type) ELSE tk.proc
           dry == DryOf(proc, tk.parameters, tk.job > 0 /\ jobs[tk.job].is_dry_run)
       IN Settle(n, [tk EXCEPT !.proc = proc, !.dry = dry, !.invoked = proc # ""],
                 IF tk.job > 0 THEN jobs[tk.job] ELSE EmptyDict, now,
                 IF proc = "" THEN Returned(EmptyDict)
                 ELSE Begin(proc, tk.job_type, tk.parameters, dry))
    /\ UNCHANGED <<lookup, auth, repair, dl, ssh, hosts, remote, response>>

\* What a command that ran leaves on the machine.
Effect(rem, proc, cmd) ==
    CASE cmd = "extract" -> [rem EXCEPT !.installed = @ \cup {InstallDirOf(proc)}]
      [] cmd = "mkdir_tmp" -> [rem EXCEPT !.tmp = TRUE]
      [] cmd = "cleanup" -> [rem EXCEPT !.tmp = FALSE]
      [] OTHER -> rem

\* The output of a command that exited 0.
StdoutOf(rem, proc, cmd) ==
    IF cmd # "check" THEN <<>>
    ELSE IF proc = "install_splunk_uf"
    THEN IF InstallDirOf(proc) \in rem.installed THEN <<"exists">> ELSE <<"not", "exists">>
    ELSE IF InstallDirOf(proc) \in rem.installed THEN <<"Found">> ELSE <<"Not", "Found">>

\* The command a task awaits ends, and the procedure goes on to its next
\* command or to its return.  "raise" is an exception that escapes the
\* procedure at this step.  A command that timed out may or may not have
\* taken effect on the machine.
step(n) ==
    /\ tasks[n].st = "awaiting"
    /\ LET tk == tasks[n]
           steps == StepsOf(tk.proc, tk.job_type, tk.parameters)
           s == steps[tk.pc]
       IN \E outcome \in CmdOutcomes \cup {"raise"}, applied \in BOOLEAN :
            /\ tk.proc = "install_splunk_uf" => outcome \in SentOutcomes
            /\ outcome = "ok" => applied
            /\ outcome \in {"nonzero", "conn", "raise"} => ~applied
            /\ LET stdout == IF outcome = "ok" THEN StdoutOf(remote, tk.proc, s.cmd) ELSE <<>>
                   r == IF tk.proc = "install_splunk_uf" THEN run(s.cmd, outcome, stdout)
                        ELSE run_command_with_timeout(s.cmd, outcome, stdout)
                   o == IF outcome = "raise" THEN Raised("unexpected error")
                        ELSE After(tk.proc, steps, tk.dry, tk.res, tk.pc, r)
                   tk1 == [tk EXCEPT !.sent = IF outcome \in SentOutcomes
                                                 THEN Append(@, s.cmd) ELSE @,
                                       !.outs = Append(@, <<s.cmd, outcome>>)]
               IN /\ remote' = IF applied THEN Effect(remote, tk.proc, s.cmd) ELSE remote
                  /\ Settle(n, tk1, IF tk.job > 0 THEN jobs[tk.job] ELSE EmptyDict, now, o)
    /\ UNCHANGED <<lookup, auth, repair, dl, ssh, hosts, response>>

Next ==
    \/ create_splunk_uf_install_job
    \/ create_splunk_enterprise_install_job
    \/ create_cribl_worker_install_job
    \/ create_cribl_leader_install_job
    \/ create_custom_job
    \/ \E job_id \in 1..MaxJobs : cancel_job(job_id)
    \/ \E host_id \in HostIds : delete_host(host_id)
    \/ \E n \in 1..Len(tasks) : run_job(n)
    \/ \E n \in 1..Len(tasks) : run_procedure(n)
    \/ \E n \in 1..Len(tasks) : step(n)

Spec == Init /\ [][Next]_vars

\* ------------------------------------------------------------------------
\* _run_job as a function of the job table.  The submit endpoints create
\* jobs of five types and schedule _run_job once for each; _run_job itself
\* takes any job id.  SpecAnyJob adds job records of a JobType that has no
\* submit endpoint; SpecRedispatch adds further invocations of _run_job for
\* a job that exists.

create_other_job ==
    \E host_id \in hosts, is_dry_run \in BOOLEAN :
        /\ Len(jobs) < MaxJobs
        /\ CreateJob("create_other_job", host_id, JobType.PERMISSION_REPAIR,
                     is_dry_run, EmptyDict)

dispatch_again(job_id) ==
    /\ job_id <= Len(jobs)
    /\ Len(tasks) < MaxTasks
    /\ tasks' = Append(tasks, NewTask(job_id, jobs[job_id].host_id, "",
                                      jobs[job_id].job_type, jobs[job_id].parameters, FALSE))
    /\ UNCHANGED <<lookup, auth, repair, dl, ssh, hosts, roles, remote, jobs, now, response>>

NextAnyJob == Next \/ create_other_job

SpecAnyJob == Init /\ [][NextAnyJob]_vars

\* Two endpoints stand for the five: every job type takes the same first
\* lines of _run_job.
NextRedispatch ==
    \/ create_splunk_uf_install_job
    \/ create_custom_job
    \/ \E job_id \in 1..MaxJobs : dispatch_again(job_id)
    \/ \E n \in 1..Len(tasks) : run_job(n)
    \/ \E n \in 1..Len(tasks) : run_procedure(n)
    \/ \E n \in 1..Len(tasks) : step(n)

SpecRedispatch == Init /\ [][NextRedispatch]_vars

\* Two submits of the same install for the same host: the second request
\* arrives while the _run_job of the first may be anywhere.
MaxConcurrentJobs == 2

ConcurrentParams == {[version |-> "9.4.3", user |-> "splunk"]}

create_splunk_uf_install_job_twice ==
    \E host_id \in HostIds, parameters \in ConcurrentParams :
        /\ Len(jobs) < MaxConcurrentJobs
        /\ IF host_id \notin hosts
           THEN Reject("create_splunk_uf_install_job", 404, 0)
           ELSE CreateJob("create_splunk_uf_install_job", host_id,
                          JobType.SPLUNK_UF_INSTALL, FALSE, parameters)

NextConcurrent ==
    \/ create_splunk_uf_install_job_twice
    \/ \E n \in 1..Len(tasks) : run_job(n)
    \/ \E n \in 1..Len(tasks) : run_procedure(n)
    \/ \E n \in 1..Len(tasks) : step(n)

SpecConcurrent == Init /\ [][NextConcurrent]_vars

\* ------------------------------------------------------------------------
\* The procedures called on their own, one call after another, against the
\* same host (job = 0: no job record is involved).

CustomProcParams ==
    {EmptyDict, [is_dry_run |-> TRUE], [command |-> "ls"],
     [command |-> "ls", is_dry_run |-> TRUE],
     [command |-> "ls", run_user |-> "svc"],
     [command |-> "ls", run_user |-> "svc", is_dry_run |-> TRUE]}

ProcParams(proc) ==
    CASE proc = "install_splunk_universal_forwarder" -> UFParams
      [] proc = "install_splunk_enterprise" -> EntParams
      [] proc = "install_cribl_leader" -> LeaderParams
      [] proc = "install_cribl_worker" -> WorkerParams
      [] OTHER -> CustomProcParams

NoCallInFlight == \A n \in 1..Len(tasks) : tasks[n].st \in {"returned", "raised"}

\* The first call returned success with every command after its existence
\* check exiting 0, and a later call of the procedure proc with these
\* parameters repeats it.
Repeats(proc, parameters) ==
    /\ tasks[1].proc = proc
    /\ tasks[1].parameters = parameters
    /\ tasks[1].st = "returned"
    /\ Get(tasks[1].res, "success", FALSE)
    /\ \A i \in 2..Len(tasks[1].outs) : tasks[1].outs[i][2] = "ok"

\* A call of a procedure of backend/installers; a later call repeats a
\* first one that succeeded.
call(proc, parameters) ==
    /\ Len(tasks) < MaxCalls
    /\ NoCallInFlight
    /\ Len(tasks) > 0 => Repeats(proc, parameters)
    /\ tasks' = Append(tasks, [NewTask(0, 1, proc, "", parameters, FALSE)
                                 EXCEPT !.st = "started"])
    /\ UNCHANGED <<lookup, auth, repair, dl, ssh, hosts, roles, remote, jobs, now, response>>

\* install_splunk_uf (backend/automation/splunk_installer.py) from its
\* entry to the first command it awaits: the validation of the parameters,
\* the lookup of the download URLs, the connection of get_ssh_client and
\* the dry-run return.  connected says whether ssh_client.connect()
\* succeeded.
install_splunk_uf_entry(params, download_urls, connected) ==
    CASE Get(params, "version", "") = "" ->
           Returned([success |-> FALSE, message |-> "Splunk version is required"])
      [] Get(params, "admin_password", "") = "" ->
           Returned([success |-> FALSE, message |-> "Admin password is required"])
      [] Len(download_urls) = 0 ->
           Returned([success |-> FALSE, message |-> "No download URL available"])
      [] ~connected ->
           Returned([success |-> FALSE, message |-> "Could not establish SSH connection"])
      [] Get(params, "is_dry_run", FALSE) ->
           Returned([success |-> TRUE, message |-> "Dry run - would have installed Splunk UF",
                     is_dry_run |-> TRUE, version |-> params["version"],
                     architecture |-> Get(params, "architecture", "x86_64"),
                     install_dir |-> Get(params, "install_dir", "/opt")])
      [] OTHER -> Awaiting(1, EmptyDict)

\* The calls of install_splunk_uf.
UfCallParams ==
    {[version |-> "9.4.3", admin_password |-> "x"],
     [version |-> "9.4.3", admin_password |-> "x", deployment_server |-> "ds:8089"],
     [version |-> "9.4.3", admin_password |-> "x", is_dry_run |-> TRUE],
     [version |-> "9.4.3", admin_password |-> "x", is_dry_run |-> TRUE,
      install_dir |-> "/srv"],
     [admin_password |-> "x", is_dry_run |-> TRUE],
     [version |-> "9.4.3", is_dry_run |-> TRUE]}

\* A call of install_splunk_uf up to its first command: a dry run awaits
\* no command before it returns.  A later call repeats a first one that
\* succeeded.
install_splunk_uf_call ==
    \E params \in UfCallParams, download_urls \in {<<>>, <<"url">>},
       connected \in BOOLEAN :
        /\ Len(tasks) < MaxCalls
        /\ NoCallInFlight
        /\ Len(tasks) > 0 => Repeats("install_splunk_uf", params)
        /\ LET o == install_splunk_uf_entry(params, download_urls, connected)
           IN tasks' = Append(tasks, [NewTask(0, 1, "install_splunk_uf", "", params,
                                              Get(params, "is_dry_run", FALSE))
                                        EXCEPT !.st = o.st, !.pc = o.pc, !.res = o.res,
                                               !.invoked = TRUE])
        /\ UNCHANGED <<lookup, auth, repair, dl, ssh, hosts, roles, remote, jobs, now, response>>

NextProc ==
    \/ \E proc \in InstallerProcs \cup CustomProcs :
          \E parameters \in ProcParams(proc) : call(proc, parameters)
    \/ install_splunk_uf_call
    \/ \E n \in 1..Len(tasks) : run_procedure(n)
    \/ \E n \in 1..Len(tasks) : step(n)

SpecProc == Init /\ [][NextProc]_vars

\* ------------------------------------------------------------------------
\* Claims about the job lifecycle.

TaskIds == 1..Len(tasks)
JobIds == 1..Len(jobs)

\* A _run_job that found its host and has returned.
RunReturned(n) == tasks[n].job > 0 /\ tasks[n].st = "done" /\ tasks[n].marked

\* C1: after _run_job returns for a job whose host exists, the job's status
\* is completed, failed or cancelled, for every job type and every result.
C1_TerminalAfterRun ==
    \A n \in TaskIds : RunReturned(n) => jobs[tasks[n].job].status \in TerminalStatus

\* C2: every change of a job's status is pending->running,
\* running->completed, running->failed or pending->cancelled.
AllowedTransitions ==
    {<<JobStatus.PENDING, JobStatus.RUNNING>>, <<JobStatus.RUNNING, JobStatus.COMPLETED>>,
     <<JobStatus.RUNNING, JobStatus.FAILED>>, <<JobStatus.PENDING, JobStatus.CANCELLED>>}

C2_OneWayTransitions ==
    [][\A j \in JobIds :
          jobs'[j].status # jobs[j].status =>
              <<jobs[j].status, jobs'[j].status>> \in AllowedTransitions]_vars

\* C3: a job cancelled before its scheduled _run_job starts is never set to
\* running, its procedure is never invoked, and it stays cancelled.
C3_CancelledNeverDispatched ==
    [][\A n \in TaskIds :
          (tasks[n].st = "scheduled" /\ jobs[tasks[n].job].status = JobStatus.CANCELLED)
          => /\ ~tasks'[n].marked
             /\ ~tasks'[n].invoked
             /\ jobs'[tasks[n].job].status = JobStatus.CANCELLED]_vars

\* C4: however often _run_job is invoked for a job id, the job enters
\* running at most once and its procedure is invoked at most once.
C4_DispatchedAtMostOnce ==
    \A j \in JobIds :
        /\ Cardinality({n \in TaskIds : tasks[n].job = j /\ tasks[n].marked}) <= 1
        /\ Cardinality({n \in TaskIds : tasks[n].job = j /\ tasks[n].invoked}) <= 1

\* C5: cancel_job sets a job to cancelled only when it is pending; for a
\* job in any other status the request is rejected with an error and the
\* job's status and completed_at stay as they are.
C5_CancelOnlyPending ==
    [][/\ \A j \in JobIds :
            (jobs'[j].status = JobStatus.CANCELLED /\ jobs[j].status # JobStatus.CANCELLED)
            => /\ jobs[j].status = JobStatus.PENDING
               /\ response' = Resp("cancel_job", 200, j)
       /\ (response' # response /\ response'.op = "cancel_job")
          => LET j == response'.job
             IN IF j \in JobIds /\ jobs[j].status = JobStatus.PENDING
                THEN /\ response'.code = 200
                     /\ jobs'[j].status = JobStatus.CANCELLED
                     /\ jobs'[j].completed_at = now
                ELSE /\ response'.code \in {400, 404}
                     /\ jobs' = jobs]_vars

\* A cancel request for a running job was rejected and the job still runs.
C5_Witness ==
    /\ response.op = "cancel_job"
    /\ response.code = 400
    /\ response.job \in JobIds
    /\ jobs[response.job].status = JobStatus.RUNNING
    /\ jobs[response.job].completed_at = None

\* C6: when the procedure raises, the job ends failed with the exception
\* text in stderr and completed_at stamped, and _run_job returns normally.
C6_ExceptionBecomesFailed ==
    \A n \in TaskIds :
        (tasks[n].job > 0 /\ tasks[n].exc # "")
        => /\ tasks[n].st = "done"
           /\ jobs[tasks[n].job].status = JobStatus.FAILED
           /\ TextContains(jobs[tasks[n].job].stderr, <<tasks[n].exc>>)
           /\ jobs[tasks[n].job].completed_at # None

\* An install procedure raised after it had sent a command.
C6_Witness ==
    \E n \in TaskIds :
        /\ tasks[n].job > 0
        /\ tasks[n].exc = "unexpected error"
        /\ Len(tasks[n].sent) > 0
        /\ jobs[tasks[n].job].status = JobStatus.FAILED

\* C7: a job submitted with is_dry_run = true never runs a mutating
\* command on the host, whatever its type and its parameters mapping.
C7_DryRunJobNeverMutates ==
    \A n \in TaskIds :
        (tasks[n].job > 0 /\ jobs[tasks[n].job].is_dry_run)
        => \A i \in 1..Len(tasks[n].sent) : ~Mutating(tasks[n].sent[i])

\* ------------------------------------------------------------------------
\* Claims about the procedures.

IsDryRunCall(n) ==
    /\ tasks[n].job = 0
    /\ Get(tasks[n].parameters, "is_dry_run", FALSE)

\* The parameters a procedure refuses to start without.
RequiredParams(proc) ==
    CASE proc = "install_cribl_worker" -> {"leader_host", "authentication_token"}
      [] proc = "run_custom_command" -> {"command"}
      [] proc = "install_splunk_uf" -> {"version", "admin_password"}
      [] OTHER -> {}

HasRequiredParams(n) ==
    \A k \in RequiredParams(tasks[n].proc) : Get(tasks[n].parameters, k, "") # ""

NoMutatingSent(n) ==
    \A i \in 1..Len(tasks[n].sent) : ~Mutating(tasks[n].sent[i])

\* C8: a procedure of backend/installers called with is_dry_run = true
\* runs no mutating command and returns success = true with a non-empty
\* commands sequence, whatever the host's state and the pre-check's outcome.
C8_DryRunProcedure ==
    \A n \in TaskIds :
        (IsDryRunCall(n) /\ HasRequiredParams(n)
           /\ tasks[n].proc \in InstallerProcs \cup CustomProcs)
        => /\ NoMutatingSent(n)
           /\ tasks[n].st = "returned"
              => /\ Get(tasks[n].res, "success", FALSE)
                 /\ Len(Get(tasks[n].res, "commands", <<>>)) > 0

\* C9: install_splunk_uf called with is_dry_run = true runs no command on
\* the host and returns success = true with the non-empty sequence of the
\* commands a real run would have run.  The calls looked at are the ones
\* that got as far as the dry-run return: valid parameters, a download URL
\* and a connection.
C9_UfDryRunListsCommands ==
    \A n \in TaskIds :
        (IsDryRunCall(n) /\ tasks[n].proc = "install_splunk_uf"
           /\ HasRequiredParams(n)
           /\ tasks[n].st = "returned"
           /\ Get(tasks[n].res, "is_dry_run", FALSE))
        => /\ tasks[n].sent = <<>>
           /\ Get(tasks[n].res, "success", FALSE)
           /\ Len(Get(tasks[n].res, "commands", <<>>)) > 0

\* The call before call n was a real run of the same installer that went
\* through every step and returned success, and the directory it installed
\* is on the host.
FirstRunInstalled(n) ==
    /\ n > 1
    /\ tasks[n].job = 0 /\ tasks[n - 1].job = 0
    /\ tasks[n].proc \in InstallerProcs
    /\ tasks[n - 1].proc = tasks[n].proc
    /\ tasks[n - 1].st = "returned"
    /\ ~tasks[n - 1].dry
    /\ Get(tasks[n - 1].res, "success", FALSE)
    /\ ~Get(tasks[n - 1].res, "skipped", FALSE)
    /\ InstallDirOf(tasks[n].proc) \in remote.installed

\* C10: an installer run a second time on a host where its first run
\* succeeded runs only the read-only existence check and returns
\* success = true with skipped = true.
C10_SecondRunSkips ==
    \A n \in TaskIds :
        FirstRunInstalled(n)
        => /\ NoMutatingSent(n)
           /\ tasks[n].st = "returned"
              => /\ Get(tasks[n].res, "success", FALSE)
                 /\ Get(tasks[n].res, "skipped", FALSE)

\* No call so far has sent a command that puts an install directory on the
\* host: a directory that is there now was there before every call.
NothingExtracted ==
    \A m \in TaskIds : \A i \in 1..Len(tasks[m].sent) :
        tasks[m].sent[i] \notin {"extract", "validate"}

\* C11: install_splunk_uf called (not as a dry run) against a host where
\* {install_dir}/splunkforwarder already exists returns success = true and
\* has run no mutating command before or after the existence check.  The
\* calls looked at are the ones that got as far as the existence check.
C11_UfSkipsWhenInstalled ==
    \A n \in TaskIds :
        (tasks[n].proc = "install_splunk_uf" /\ ~tasks[n].dry
           /\ tasks[n].st = "returned"
           /\ (\E i \in 1..Len(tasks[n].sent) : tasks[n].sent[i] = "check")
           /\ NothingExtracted
           /\ "splunkforwarder" \in remote.installed)
        => /\ Get(tasks[n].res, "success", FALSE)
           /\ NoMutatingSent(n)

\* C12: an installer of backend/installers short-circuits with
\* skipped = true only when the install directory exists: on a host where
\* the directory is absent (the check prints 'Not Found') it does not skip.
C12_SkipsOnlyWhenInstalled ==
    \A n \in TaskIds :
        (tasks[n].proc \in InstallerProcs /\ tasks[n].st = "returned"
           /\ Get(tasks[n].res, "skipped", FALSE))
        => InstallDirOf(tasks[n].proc) \in remote.installed
\* The host had no install directory for the procedure of call n when
\* the call began: no other call installed one, and the directory is
\* absent now or call n extracted it itself.
AbsentBefore(n) ==
    /\ \A m \in TaskIds \ {n} : \A i \in 1..Len(tasks[m].sent) :
           tasks[m].sent[i] \notin {"extract", "validate"}
    /\ \/ InstallDirOf(tasks[n].proc) \notin remote.installed
       \/ \E i \in 1..Len(tasks[n].sent) : tasks[n].sent[i] = "extract"

\* Every command call n ran exited 0.
AllExitedZero(n) == \A i \in 1..Len(tasks[n].outs) : tasks[n].outs[i][2] = "ok"

\* The order of the commands of a forwarder install.
ForwarderOrder ==
    <<"check", "create_user", "download", "integrity_check", "extract", "chown",
      "seed", "start", "boot", "verify", "cleanup">>

\* C13: a forwarder-install job (not a dry run) against a host without
\* /opt/splunkforwarder, every command exiting 0, runs existence check,
\* user/group create, download, integrity check, extract, chown, seed
\* config, start, boot-start, verify, cleanup in that order and ends
\* completed.
C13_ForwarderOrder ==
    \A n \in TaskIds :
        (tasks[n].job > 0 /\ tasks[n].st = "done"
           /\ tasks[n].proc = "install_splunk_universal_forwarder"
           /\ ~tasks[n].dry /\ AllExitedZero(n) /\ AbsentBefore(n))
        => /\ tasks[n].sent = ForwarderOrder
           /\ jobs[tasks[n].job].status = JobStatus.COMPLETED
\* C14: a forwarder-install job whose admin_password is empty or missing
\* is rejected at submission: it is never dispatched and no command is sent
\* to the host for it.
C14_EmptyPasswordRejected ==
    \A n \in TaskIds :
        (tasks[n].job > 0
           /\ jobs[tasks[n].job].job_type = JobType.SPLUNK_UF_INSTALL
           /\ Get(jobs[tasks[n].job].parameters, "admin_password", "") = "")
        => /\ ~tasks[n].marked
           /\ tasks[n].sent = <<>>
\* ------------------------------------------------------------------------
\* The SSH layer: SIEMplySSHClient and the three functions that open a
\* session.  Of the record ssh:
\*   tries     the results of the attempts of the current connect() ("ok"
\*             or the cause of the failure)
\*   sleeps    the time.sleep() arguments of the current connect()
\*   error     the cause the SSHConnectionError carries
\*   open      the paramiko client of a session function is open
\*   sessions  the paramiko clients created so far, one per attempt: whether
\*             its connection succeeded and how often it was closed
\*   client    self.client: 0 for None, else an index into sessions
\*   log       the calls made on the client after the first connect()
\*   event     what happened inside the last execute_command
\*   exc       the class of the exception that left it, or ""
\*   result    the result run_command_with_timeout returned

MaxRetries == 3

MaxClientCalls == 2

Causes == {"timed out", "refused"}

SessionFns == {"run_command_with_timeout", "validate_ssh_connection", "get_ssh_client"}

\* What can happen inside execute_command once the command was issued: the
\* command exits, paramiko raises SSHException, the channel times out, the
\* output is not UTF-8, or the socket fails.
ExecEvents == {"ok", "nonzero", "paramiko.SSHException", "TimeoutError",
               "UnicodeDecodeError", "OSError"}

\* The sleep after a failed attempt that left retries_left attempts.
backoff_next_power(retries, retries_left) == 2 ^ (retries - retries_left)

backoff(retries, retries_left) == 2 ^ (retries - retries_left - 1)

\* A call of connect() on a new client, by itself or as the first thing one
\* of the session functions does.
ssh_call(fn, retries) ==
    /\ ssh.st = "idle"
    /\ ssh' = [ssh EXCEPT !.fn = fn, !.st = "connecting", !.retries = retries,
                          !.retries_left = retries]
    /\ UNCHANGED <<lookup, auth, repair, dl, hosts, roles, remote, jobs, tasks, now, response>>

\* What the caller of connect() does with SSHConnectionError: the session
\* functions catch it and return (get_ssh_client yields None, and its
\* finally finds no client to close).
ConnectFailed(c) ==
    IF c.fn = "connect" THEN [c EXCEPT !.st = "raised", !.error = c.last_exception]
    ELSE [c EXCEPT !.st = "returned",
                   !.result = IF c.fn = "run_command_with_timeout"
                              THEN run_command_with_timeout("command", "conn", <<>>)
                              ELSE @]

\* An attempt that assigns self.client before client.connect() has returned.
attempt_stores_first(c, result) ==
    LET c1 == [c EXCEPT !.tries = Append(@, result),
                        !.sessions = Append(@, [ok |-> result = "ok", closes |-> 0]),
                        !.client = Len(c.sessions) + 1]
    IN IF result = "ok" THEN [c1 EXCEPT !.st = "connected", !.open = TRUE]
       ELSE c1

\* One attempt: a paramiko client is created and connected, and stored in
\* self.client when the connection succeeded.
attempt(c, result) ==
    LET c1 == [c EXCEPT !.tries = Append(@, result),
                        !.sessions = Append(@, [ok |-> result = "ok", closes |-> 0])]
    IN IF result = "ok"
       THEN [c1 EXCEPT !.client = Len(c.sessions) + 1, !.st = "connected", !.open = TRUE]
       ELSE c1

\* The loop of connect() with one more round than retries.
connect_attempt_extra_round(result) ==
    /\ ssh.st = "connecting"
    /\ ssh.retries_left >= 0
    /\ LET c == attempt(ssh, result)
       IN ssh' = IF result = "ok" THEN c
                 ELSE LET left == ssh.retries_left - 1
                          c1 == [c EXCEPT !.last_exception = result, !.retries_left = left,
                                          !.sleeps = IF left >= 0
                                                     THEN Append(@, backoff(ssh.retries, left))
                                                     ELSE @]
                      IN IF left >= 0 THEN c1 ELSE ConnectFailed(c1)
    /\ UNCHANGED <<lookup, auth, repair, dl, hosts, roles, remote, jobs, tasks, now, response>>

\* One round of the while loop of connect(): an attempt, and on its failure
\* the sleep before the next round or, with no retries left, the raise.
connect_attempt(result) ==
    /\ ssh.st = "connecting"
    /\ ssh.retries_left > 0
    /\ LET c == attempt(ssh, result)
       IN ssh' = IF result = "ok" THEN c
                 ELSE LET left == ssh.retries_left - 1
                          c1 == [c EXCEPT !.last_exception = result, !.retries_left = left,
                                          !.sleeps = IF left > 0
                                                     THEN Append(@, backoff(ssh.retries, left))
                                                     ELSE @]
                      IN IF left > 0 THEN c1 ELSE ConnectFailed(c1)
    /\ UNCHANGED <<lookup, auth, repair, dl, hosts, roles, remote, jobs, tasks, now, response>>

\* The try/except of execute_command: the class of the exception that
\* leaves it after event, "" when it returns.  The channel timeout of
\* paramiko is socket.timeout, which is TimeoutError.
execute_command_raises(event) ==
    CASE event \in {"ok", "nonzero"} -> ""
      [] event = "paramiko.SSHException" -> "SSHCommandError"
      [] event = "TimeoutError" -> "SSHTimeoutError"
      [] OTHER -> event

\* disconnect() that closes the session and keeps self.client.
disconnect_keeps_client(c) ==
    IF c.client # 0
    THEN [c EXCEPT !.sessions[c.client].closes = @ + 1, !.open = FALSE]
    ELSE c

\* disconnect(): "if self.client: self.client.close(); self.client = None".
disconnect(c) ==
    IF c.client # 0
    THEN [c EXCEPT !.sessions[c.client].closes = @ + 1, !.client = 0, !.open = FALSE]
    ELSE c

\* run_command_with_timeout and validate_ssh_connection after connect():
\* execute_command, then disconnect() on the path where it returned.  An
\* exception leaves the try block before disconnect().  Only
\* run_command_with_timeout bounds the command with asyncio.wait_for.
execute_command(event) ==
    /\ ssh.st = "connected"
    /\ ssh.fn \in {"run_command_with_timeout", "validate_ssh_connection"}
    /\ event = "asyncio.TimeoutError" => ssh.fn = "run_command_with_timeout"
    /\ LET exc == IF event = "asyncio.TimeoutError" THEN event
                  ELSE execute_command_raises(event)
           result == run_command_with_timeout("command", IF exc = "" THEN event ELSE exc, <<>>)
           c == [ssh EXCEPT !.st = IF "raised" \in DOMAIN result THEN "raised"
                                   ELSE "returned",
                            !.event = event,
                            !.exc = IF event = "asyncio.TimeoutError" THEN ""
                                    ELSE execute_command_raises(event),
                            !.result = IF ssh.fn = "run_command_with_timeout"
                                       THEN result ELSE @]
       IN ssh' = IF exc = "" THEN disconnect(c) ELSE c
    /\ UNCHANGED <<lookup, auth, repair, dl, hosts, roles, remote, jobs, tasks, now, response>>

\* The body of "async with get_ssh_client(host)" ends.  When it returns,
\* the generator resumes and its finally disconnects.  When it raises, the
\* generator catches the exception and yields a second time: whether the
\* generator is closed before the with statement is left depends on the
\* version of contextlib.
body_exit(how, closed) ==
    /\ ssh.st = "connected"
    /\ ssh.fn = "get_ssh_client"
    /\ how = "return" => closed
    /\ ssh' = [ssh EXCEPT !.st = "returned", !.open = ~closed]
    /\ UNCHANGED <<lookup, auth, repair, dl, hosts, roles, remote, jobs, tasks, now, response>>

\* The client used directly is between two calls; st tells how its last
\* connect() ended.
BetweenCalls ==
    /\ ssh.fn = "connect"
    /\ ssh.st \in {"connected", "raised"}
    /\ Len(ssh.log) < MaxClientCalls

\* connect() is called again on the same client.
client_connect ==
    /\ BetweenCalls
    /\ ssh' = [ssh EXCEPT !.st = "connecting", !.retries_left = ssh.retries,
                          !.tries = <<>>, !.sleeps = <<>>, !.last_exception = "",
                          !.error = "", !.log = Append(@, "connect"), !.event = "",
                          !.exc = ""]
    /\ UNCHANGED <<lookup, auth, repair, dl, hosts, roles, remote, jobs, tasks, now, response>>

\* execute_command is called on a client that holds a session.  (On a
\* client without one it calls connect() first, which is client_connect.)
client_execute(event) ==
    /\ BetweenCalls
    /\ ssh.client # 0
    /\ ssh' = [ssh EXCEPT !.log = Append(@, "execute_command"), !.event = event,
                          !.exc = execute_command_raises(event)]
    /\ UNCHANGED <<lookup, auth, repair, dl, hosts, roles, remote, jobs, tasks, now, response>>

client_disconnect ==
    /\ BetweenCalls
    /\ ssh' = [disconnect(ssh) EXCEPT !.log = Append(@, "disconnect"),
                                      !.event = "disconnect", !.exc = ""]
    /\ UNCHANGED <<lookup, auth, repair, dl, hosts, roles, remote, jobs, tasks, now, response>>

NextSsh ==
    \/ \E fn \in SessionFns \cup {"connect"}, retries \in 1..MaxRetries : ssh_call(fn, retries)
    \/ \E result \in Causes \cup {"ok"} : connect_attempt(result)
    \/ \E event \in ExecEvents \cup {"asyncio.TimeoutError"} : execute_command(event)
    \/ \E how \in {"return", "raise"}, closed \in BOOLEAN : body_exit(how, closed)
    \/ client_connect
    \/ \E event \in ExecEvents : client_execute(event)
    \/ client_disconnect

SpecSsh == Init /\ [][NextSsh]_vars

\* ------------------------------------------------------------------------
\* The checks install_splunk_uf makes of the downloaded file, from the
\* verified download to the extraction.  Of the record dl:
\*   file        the file at /tmp/splunk_install/splunkforwarder.tgz
\*   file_cmd    the host has the file command
\*   valid_file  the variable valid_file
\*   sent        the commands run so far, each with the value valid_file
\*               had when it was sent
\*   message     the message of the failure result returned
\*   urls, url   the number of download URLs and the index of the current one
\*   has_curl, has_wget   what "which curl" and "which wget" found
\*   content     what is at the download path: "absent", "empty", "partial"
\*               (a transfer that broke off), "page" or "complete"
\*   attempts    the download attempts: method, URL and whether it exited 0

\* The files a download can leave: the size du -h prints (its characters),
\* the type file prints (its words), and whether tar can read it.  A page
\* is what a server answers in place of the package.
DownloadedFiles ==
    {[kind |-> "archive", size |-> <<"3", "5", "M">>,
      type |-> <<"gzip", "compressed", "data">>, tar |-> TRUE],
     [kind |-> "truncated_archive", size |-> <<"1", "2", "M">>,
      type |-> <<"gzip", "compressed", "data">>, tar |-> FALSE],
     [kind |-> "html_page", size |-> <<"4", ".", "0", "K">>,
      type |-> <<"HTML", "document,", "ASCII", "text">>, tar |-> FALSE],
     [kind |-> "empty", size |-> <<"0">>, type |-> <<"empty">>, tar |-> FALSE]}

\* str.lower() on the words of the model.
lower(text) ==
    [i \in 1..Len(text) |-> CASE text[i] = "ASCII" -> "ascii"
                              [] text[i] = "HTML" -> "html"
                              [] OTHER -> text[i]]

\* 'if "k" in file_size or file_size.startswith("0")'.
suspiciously_small(file_size) ==
    \/ \E i \in 1..Len(file_size) : file_size[i] = "k"
    \/ (Len(file_size) > 0 /\ file_size[1] = "0")

\* The loop over the valid types on the output of file.
type_is_valid(stdout) ==
    \E valid_type \in {<<"gzip", "compressed", "data">>, <<"tar", "archive">>,
                       <<"data">>, <<"ASCII", "text">>} :
        TextContains(lower(stdout), lower(valid_type))

\* ssh.run(cmd): the command is sent.
Sent(d, cmd) == [d EXCEPT !.sent = Append(@, <<cmd, d.valid_file>>)]

InvalidArchive == "Downloaded file does not appear to be a valid archive"

\* The download has been verified: valid_file starts as True.
downloaded(file, file_cmd) ==
    /\ dl.pc = "idle"
    /\ dl' = [dl EXCEPT !.pc = "size_check", !.file = file, !.file_cmd = file_cmd,
                        !.valid_file = TRUE]
    /\ UNCHANGED <<hosts, roles, remote, jobs, tasks, now, response, ssh, repair, auth, lookup>>

\* "du -h": ran tells whether the command ran and exited 0 (ssh.run gives
\* return code 1 when it could not run it).
size_check(ran) ==
    /\ dl.pc = "size_check"
    /\ dl' = [Sent(dl, "du -h") EXCEPT
                !.pc = "gzip_check",
                !.valid_file = IF ran /\ suspiciously_small(dl.file.size) THEN FALSE ELSE @]
    /\ UNCHANGED <<hosts, roles, remote, jobs, tasks, now, response, ssh, repair, auth, lookup>>

\* "which file && file ... || echo 'file command not found'", and the
\* "if not valid_file" that follows for a file found valid.
gzip_check(ran) ==
    /\ dl.pc = "gzip_check"
    /\ LET stdout == IF ~ran THEN <<>>
                     ELSE IF dl.file_cmd THEN dl.file.type
                     ELSE <<"file", "command", "not", "found">>
           valid_file == IF TextContains(stdout, <<"command", "not", "found">>)
                         THEN dl.valid_file
                         ELSE type_is_valid(stdout)
       IN dl' = [Sent(dl, "file") EXCEPT
                   !.valid_file = valid_file,
                   !.pc = IF valid_file THEN "extract" ELSE "tar_check"]
    /\ UNCHANGED <<hosts, roles, remote, jobs, tasks, now, response, ssh, repair, auth, lookup>>

\* "tar -tzf": the listing.
tar_check(ran) ==
    /\ dl.pc = "tar_check"
    /\ dl' = IF ran /\ dl.file.tar
             THEN [Sent(dl, "tar -tzf") EXCEPT !.valid_file = TRUE, !.pc = "extract"]
             ELSE [Sent(dl, "tar -tzf") EXCEPT !.pc = "head_check"]
    /\ UNCHANGED <<hosts, roles, remote, jobs, tasks, now, response, ssh, repair, auth, lookup>>

\* "head -c 100 ... | strings": its output is logged.
head_check(ran) ==
    /\ dl.pc = "head_check"
    /\ dl' = [Sent(dl, "head") EXCEPT !.pc = "extract_check"]
    /\ UNCHANGED <<hosts, roles, remote, jobs, tasks, now, response, ssh, repair, auth, lookup>>

\* "Try direct extraction as a last resort", and the return of the failure
\* result for a file still not valid.
extract_check(ran) ==
    /\ dl.pc = "extract_check"
    /\ dl' = IF ran /\ dl.file.tar
             THEN [Sent(dl, "tar -xzf") EXCEPT !.valid_file = TRUE, !.pc = "extract"]
             ELSE [Sent(dl, "tar -xzf") EXCEPT !.pc = "returned", !.message = InvalidArchive]
    /\ UNCHANGED <<hosts, roles, remote, jobs, tasks, now, response, ssh, repair, auth, lookup>>

\* "Extract Splunk UF".
extract(ran) ==
    /\ dl.pc = "extract"
    /\ dl' = IF ran /\ dl.file.tar
             THEN [Sent(dl, "tar -xzf") EXCEPT !.pc = "extracted"]
             ELSE [Sent(dl, "tar -xzf") EXCEPT !.pc = "returned",
                                               !.message = "Failed to extract Splunk UF"]
    /\ UNCHANGED <<hosts, roles, remote, jobs, tasks, now, response, ssh, repair, auth, lookup>>

NextValidate ==
    \/ \E file \in DownloadedFiles, file_cmd \in BOOLEAN : downloaded(file, file_cmd)
    \/ \E ran \in BOOLEAN : size_check(ran)
    \/ \E ran \in BOOLEAN : gzip_check(ran)
    \/ \E ran \in BOOLEAN : tar_check(ran)
    \/ \E ran \in BOOLEAN : head_check(ran)
    \/ \E ran \in BOOLEAN : extract_check(ran)
    \/ \E ran \in BOOLEAN : extract(ran)

SpecValidate == Init /\ [][NextValidate]_vars

\* ------------------------------------------------------------------------
\* The download of install_splunk_uf: the probing of curl and wget, the
\* loop over the download URLs, the generated download script, and then
\* the verification and the checks of the file above.

MaxUrls == 2

\* What a download that exited 0 leaves: the package, or the page a server
\* answered with (curl -L and wget -O exit 0 for it).
Fetched == {"complete", "page"}

FileOf(content) ==
    CHOOSE file \in DownloadedFiles :
        file.kind = CASE content = "complete" -> "archive"
                      [] content = "partial" -> "truncated_archive"
                      [] content = "page" -> "html_page"
                      [] OTHER -> "empty"

Attempt(d, method, ok) ==
    [d EXCEPT !.attempts = Append(@, [method |-> method, url |-> d.url, ok |-> ok])]

\* The end of one round of the loop over the URLs without a download: the
\* next URL, or after the last one the download script.
NextUrl(d) ==
    IF d.url < d.urls
    THEN [d EXCEPT !.url = @ + 1, !.pc = IF d.has_curl THEN "curl" ELSE "wget"]
    ELSE [d EXCEPT !.url = 1, !.pc = "test_connectivity"]

\* The end of one round of the loop of the download script.
NextScriptUrl(d) ==
    IF d.url < d.urls
    THEN [d EXCEPT !.url = @ + 1, !.pc = "create_script"]
    ELSE [d EXCEPT !.pc = "ping"]

\* get_all_download_urls returned urls URLs and the session is open.
download_begin(urls, file_cmd) ==
    /\ dl.pc = "idle"
    /\ dl' = [dl EXCEPT !.pc = "curl_check", !.urls = urls, !.url = 1, !.file_cmd = file_cmd]
    /\ UNCHANGED <<hosts, roles, remote, jobs, tasks, now, response, ssh, repair, auth, lookup>>

\* "which curl".
curl_check(found) ==
    /\ dl.pc = "curl_check"
    /\ dl' = [Sent(dl, "which curl") EXCEPT !.has_curl = found, !.pc = "wget_check"]
    /\ UNCHANGED <<hosts, roles, remote, jobs, tasks, now, response, ssh, repair, auth, lookup>>

\* "which wget", and the return when neither tool is there.
wget_check(found) ==
    /\ dl.pc = "wget_check"
    /\ dl' = [Sent(dl, "which wget") EXCEPT
                !.has_wget = found,
                !.pc = IF dl.has_curl THEN "curl" ELSE IF found THEN "wget" ELSE "returned",
                !.message = IF ~dl.has_curl /\ ~found
                            THEN "Neither curl nor wget is available" ELSE @]
    /\ UNCHANGED <<hosts, roles, remote, jobs, tasks, now, response, ssh, repair, auth, lookup>>

\* The curl command for the current URL.  A curl that fails has written
\* nothing or a part of the file.
curl_download(ok, left) ==
    /\ dl.pc = "curl"
    /\ IF ok THEN left \in Fetched ELSE left \in {dl.content, "partial"}
    /\ LET d == [Attempt(Sent(dl, "curl"), "curl", ok) EXCEPT !.content = left]
       IN dl' = IF ok THEN [d EXCEPT !.pc = "verify_download"]
                ELSE IF dl.has_wget THEN [d EXCEPT !.pc = "wget"]
                ELSE NextUrl(d)
    /\ UNCHANGED <<hosts, roles, remote, jobs, tasks, now, response, ssh, repair, auth, lookup>>

\* The wget command for the current URL.  wget -O creates the file before
\* it transfers anything.
wget_download(ok, left) ==
    /\ dl.pc = "wget"
    /\ IF ok THEN left \in Fetched ELSE left \in {"empty", "partial"}
    /\ LET d == [Attempt(Sent(dl, "wget"), "wget", ok) EXCEPT !.content = left]
       IN dl' = IF ok THEN [d EXCEPT !.pc = "verify_download"] ELSE NextUrl(d)
    /\ UNCHANGED <<hosts, roles, remote, jobs, tasks, now, response, ssh, repair, auth, lookup>>

\* test_connectivity_to_splunk: its result is logged.
test_connectivity(ran) ==
    /\ dl.pc = "test_connectivity"
    /\ dl' = [Sent(dl, "curl -I") EXCEPT !.pc = "create_script"]
    /\ UNCHANGED <<hosts, roles, remote, jobs, tasks, now, response, ssh, repair, auth, lookup>>

\* create_download_script for the current URL.
create_download_script(created) ==
    /\ dl.pc = "create_script"
    /\ dl' = IF created THEN [Sent(dl, "cat > download.sh") EXCEPT !.pc = "run_script"]
             ELSE NextScriptUrl(Sent(dl, "cat > download.sh"))
    /\ UNCHANGED <<hosts, roles, remote, jobs, tasks, now, response, ssh, repair, auth, lookup>>

\* "sudo bash download.sh": the script exits 0 after one of its methods
\* downloaded a non-empty file and 1 after all of them failed; its result
\* is logged.
run_script(ok, left) ==
    /\ dl.pc = "run_script"
    /\ IF ok THEN left \in Fetched ELSE left \in {dl.content, "empty", "partial"}
    /\ dl' = [Attempt(Sent(dl, "bash download.sh"), "script", ok) EXCEPT
                !.content = left, !.pc = "check_file"]
    /\ UNCHANGED <<hosts, roles, remote, jobs, tasks, now, response, ssh, repair, auth, lookup>>

\* "test -s ... && echo 'success' || echo 'failed'".
check_file(ran) ==
    /\ dl.pc = "check_file"
    /\ dl' = IF ran /\ dl.content \notin {"absent", "empty"}
             THEN [Sent(dl, "test -s") EXCEPT !.pc = "verify_download"]
             ELSE NextScriptUrl(Sent(dl, "test -s"))
    /\ UNCHANGED <<hosts, roles, remote, jobs, tasks, now, response, ssh, repair, auth, lookup>>

\* "ping -c 1 download.splunk.com" and the failure result.
ping(reachable) ==
    /\ dl.pc = "ping"
    /\ dl' = [Sent(dl, "ping") EXCEPT
                !.pc = "returned",
                !.message = IF reachable THEN "Failed to download Splunk UF"
                            ELSE "Cannot reach download.splunk.com"]
    /\ UNCHANGED <<hosts, roles, remote, jobs, tasks, now, response, ssh, repair, auth, lookup>>

\* "ls -la" of the download path; valid_file starts as True.
verify_download(ran) ==
    /\ dl.pc = "verify_download"
    /\ dl' = IF ran /\ dl.content # "absent"
             THEN [Sent(dl, "ls -la") EXCEPT !.pc = "size_check", !.valid_file = TRUE,
                                             !.file = FileOf(dl.content)]
             ELSE [Sent(dl, "ls -la") EXCEPT !.pc = "returned",
                                             !.message = "Failed to verify Splunk UF download"]
    /\ UNCHANGED <<hosts, roles, remote, jobs, tasks, now, response, ssh, repair, auth, lookup>>

NextDownload ==
    \/ \E urls \in 1..MaxUrls, file_cmd \in BOOLEAN : download_begin(urls, file_cmd)
    \/ \E found \in BOOLEAN : curl_check(found)
    \/ \E found \in BOOLEAN : wget_check(found)
    \/ \E ok \in BOOLEAN, left \in Fetched \cup {"absent", "empty", "partial"} :
          curl_download(ok, left)
    \/ \E ok \in BOOLEAN, left \in Fetched \cup {"empty", "partial"} : wget_download(ok, left)
    \/ \E ran \in BOOLEAN : test_connectivity(ran)
    \/ \E created \in BOOLEAN : create_download_script(created)
    \/ \E ok \in BOOLEAN, left \in Fetched \cup {"absent", "empty", "partial"} :
          run_script(ok, left)
    \/ \E ran \in BOOLEAN : check_file(ran)
    \/ \E reachable \in BOOLEAN : ping(reachable)
    \/ \E ran \in BOOLEAN : verify_download(ran)
    \/ \E ran \in BOOLEAN : size_check(ran)
    \/ \E ran \in BOOLEAN : gzip_check(ran)
    \/ \E ran \in BOOLEAN : tar_check(ran)
    \/ \E ran \in BOOLEAN : head_check(ran)
    \/ \E ran \in BOOLEAN : extract_check(ran)
    \/ \E ran \in BOOLEAN : extract(ran)

SpecDownload == Init /\ [][NextDownload]_vars

\* The attempts of the call that failed.
Failures == {k \in 1..Len(ssh.tries) : ssh.tries[k] # "ok"}

\* C15: connect() with retries = N whose every attempt fails makes exactly
\* N attempts and then raises SSHConnectionError carrying the cause of the
\* last attempt; when attempt k succeeds exactly k attempts are made and
\* no error is raised.
C15_ConnectAttempts ==
    /\ Len(ssh.tries) <= ssh.retries
    /\ (ssh.fn = "connect" /\ ssh.st = "raised")
       => /\ Len(ssh.tries) = ssh.retries
          /\ Failures = 1..ssh.retries
          /\ ssh.error = ssh.tries[ssh.retries]
    /\ (ssh.fn = "connect" /\ ssh.st = "connected")
       => /\ Failures = 1..(Len(ssh.tries) - 1)
          /\ ssh.error = ""
    /\ (ssh.fn = "connect" /\ Failures # 1..Len(ssh.tries)) => ssh.st = "connected"
    /\ (ssh.fn = "connect" /\ Cardinality(Failures) = ssh.retries) => ssh.st = "raised"

C15_Witness ==
    /\ ssh.fn = "connect" /\ ssh.st = "raised" /\ ssh.retries = 3
    /\ ssh.tries = <<"refused", "refused", "timed out">>

\* C16 as stated: connect() with 3 retries against an always-failing target
\* has slept the three delays 1, 2 and 4 when it raises.
C16_ThreeSleeps ==
    (ssh.fn = "connect" /\ ssh.st = "raised" /\ ssh.retries = 3)
    => ssh.sleeps = <<1, 2, 4>>

\* C16: connect() sleeps after every failed attempt but the last: after the
\* k-th failed attempt of N, k < N, it sleeps 2^(k-1) seconds, so that with
\* 3 retries it has slept 1 and 2 when it raises.
C16_BackoffDelays ==
    ssh.st # "idle" =>
    /\ Len(ssh.sleeps) = IF Cardinality(Failures) < ssh.retries
                         THEN Cardinality(Failures) ELSE ssh.retries - 1
    /\ \A k \in 1..Len(ssh.sleeps) : ssh.sleeps[k] = 2 ^ (k - 1)

C16_Witness ==
    /\ ssh.fn = "connect" /\ ssh.st = "raised" /\ ssh.retries = 3
    /\ ssh.sleeps = <<1, 2>>

\* C17: the session a call of run_command_with_timeout,
\* validate_ssh_connection or get_ssh_client opened is closed when the call
\* has returned, on every exit path.
C17_SessionClosed ==
    (ssh.fn \in SessionFns /\ ssh.st = "returned") => ~ssh.open
\* ------------------------------------------------------------------------
\* Claims about the steps of the installers.

\* C18: when the command of an installation step of an installer exits
\* non-zero, the procedure halts at that step: it runs no later command and
\* returns success = false with that command's stderr and return code.
C18_HaltsAtFailedStep ==
    \A n \in TaskIds : \A i \in 1..Len(tasks[n].outs) :
        (tasks[n].proc \in InstallerProcs /\ tasks[n].outs[i][2] = "nonzero"
           /\ Mutating(tasks[n].outs[i][1]))
        => /\ i = Len(tasks[n].outs)
           /\ tasks[n].st = "returned"
           /\ ~Get(tasks[n].res, "success", FALSE)
           /\ Get(tasks[n].res, "return_code", None) = 1
           /\ Get(tasks[n].res, "stderr", <<>>) = <<"stderr of", tasks[n].outs[i][1]>>

\* Every installation and activation command of call n exited 0 and its
\* last command, the verification, exited non-zero.
OnlyVerifyFailed(n) ==
    LET outs == tasks[n].outs
    IN /\ Len(outs) > 1
       /\ outs[Len(outs)] = <<"verify", "nonzero">>
       /\ \A i \in 2..(Len(outs) - 1) : outs[i][2] = "ok"

\* C19: when every installation and activation step of an install job
\* succeeded and the verification command exits non-zero, the procedure
\* returns success = true and the job ends completed.
C19_VerifyFailureIsWarning ==
    \A n \in TaskIds :
        (tasks[n].job > 0 /\ tasks[n].st = "done"
           /\ tasks[n].proc \in InstallerProcs /\ OnlyVerifyFailed(n))
        => /\ Get(tasks[n].res, "success", FALSE)
           /\ jobs[tasks[n].job].status = JobStatus.COMPLETED

\* C20: in a real run, once the temporary download directory has been
\* created, the cleanup command has been run when the procedure returns.
C20_CleanupOnEveryExit ==
    \A n \in TaskIds :
        (tasks[n].job = 0 /\ tasks[n].st = "returned" /\ ~tasks[n].dry
           /\ tasks[n].proc \in InstallerProcs \cup {"install_splunk_uf"}
           /\ \E i \in 1..Len(tasks[n].outs) : tasks[n].outs[i] = <<"mkdir_tmp", "ok">>)
        => \E i \in 1..Len(tasks[n].sent) : tasks[n].sent[i] = "cleanup"
\* ------------------------------------------------------------------------
\* Claims about failures of the connection and of commands.

\* Call n tried to connect at least once and every connection it tried
\* failed.
NeverConnected(n) ==
    /\ Len(tasks[n].outs) > 0
    /\ \A i \in 1..Len(tasks[n].outs) : tasks[n].outs[i][2] = "conn"

\* C21: a job during which every connection attempt to the host fails ends
\* failed, for every job type and whether or not it is a dry run.
C21_UnreachableHostFails ==
    \A n \in TaskIds :
        (tasks[n].job > 0 /\ tasks[n].st = "done" /\ NeverConnected(n))
        => jobs[tasks[n].job].status = JobStatus.FAILED
\* C22: when the first connection of an install procedure fails, the
\* procedure returns at once: it tries no further connection and no
\* further command.
C22_ReturnsWhenOffline ==
    \A n \in TaskIds :
        (tasks[n].proc \in InstallerProcs /\ Len(tasks[n].outs) > 0
           /\ tasks[n].outs[1][2] = "conn")
        => /\ Len(tasks[n].outs) = 1
           /\ tasks[n].st = "returned"


\* ------------------------------------------------------------------------
\* Claims about the errors of the SSH layer.

\* C23: the result run_command_with_timeout returns has timed_out = true
\* whenever the command did not complete within its bound, whether the
\* asyncio timeout or the channel timeout inside execute_command fired, and
\* for no other kind of failure.
C23_TimedOutFlag ==
    (ssh.fn = "run_command_with_timeout" /\ ssh.st = "returned")
    => (Get(ssh.result, "timed_out", FALSE)
          <=> ssh.event \in {"asyncio.TimeoutError", "TimeoutError"})

C25_OnlyTypedErrors ==
    (ssh.fn = "connect" /\ ssh.event \in ExecEvents)
    => /\ ssh.event \in {"ok", "nonzero"} => ssh.exc = ""
       /\ ssh.exc \in {"", "SSHTimeoutError", "SSHCommandError"}
       /\ ssh.exc = "SSHTimeoutError" => ssh.event = "TimeoutError"

\* C26: disconnect() on a client that holds no session changes nothing, on
\* a client that holds one it closes that session and leaves client = None,
\* and no session is ever closed twice.
C26_DisconnectIdempotent ==
    /\ [](\A k \in 1..Len(ssh.sessions) : ssh.sessions[k].closes <= 1)
    /\ [][(ssh.fn = "connect" /\ ssh'.log = Append(ssh.log, "disconnect"))
          => /\ ssh'.client = 0
             /\ ssh'.exc = ""
             /\ ssh'.sessions = IF ssh.client = 0 THEN ssh.sessions
                                ELSE [ssh.sessions EXCEPT ![ssh.client].closes = 1]]_vars

C26_Witness ==
    /\ ssh.fn = "connect"
    /\ ssh.log = <<"disconnect", "disconnect">>
    /\ ssh.sessions = <<[ok |-> TRUE, closes |-> 1]>>
    /\ ssh.client = 0

\* C27: the client attribute is None or a session whose connection attempt
\* succeeded, and a failed attempt of connect() leaves it unchanged, so
\* that it is unchanged when connect() raises.
C27_ClientIsGoodSession ==
    /\ [](\/ ssh.client = 0
          \/ /\ ssh.client \in 1..Len(ssh.sessions)
             /\ ssh.sessions[ssh.client].ok)
    /\ [][(ssh.st = "connecting" /\ Len(ssh'.tries) = Len(ssh.tries) + 1
             /\ ssh'.tries[Len(ssh'.tries)] # "ok")
          => ssh'.client = ssh.client]_vars

C27_Witness ==
    /\ ssh.fn = "connect" /\ ssh.st = "raised"
    /\ ssh.log = <<"connect">>
    /\ ssh.client = 1
    /\ Len(ssh.sessions) > 1


\* ------------------------------------------------------------------------
\* Claims about the job a procedure ran for.

SubmitOps ==
    {"create_splunk_uf_install_job", "create_splunk_enterprise_install_job",
     "create_cribl_worker_install_job", "create_cribl_leader_install_job",
     "create_custom_job"}

\* C29: a submit call that succeeds creates exactly one job, pending and
\* for a host that exists, returns it, and schedules exactly one _run_job
\* for it, which has not started; a submit call that is rejected, as the
\* one for a host id that does not exist is, creates no job and schedules
\* nothing; and nothing else creates a job or schedules a _run_job.
C29_SubmitCreatesOnePendingJob ==
    [][(\/ Len(jobs') # Len(jobs)
        \/ Len(tasks') # Len(tasks)
        \/ (response' # response /\ response'.op \in SubmitOps))
       => /\ response'.op \in SubmitOps
          /\ response'.code = 200
             => /\ Len(jobs') = Len(jobs) + 1
                /\ Len(tasks') = Len(tasks) + 1
                /\ jobs' = Append(jobs, jobs'[Len(jobs')])
                /\ jobs'[Len(jobs')].status = JobStatus.PENDING
                /\ jobs'[Len(jobs')].host_id \in hosts
                /\ response'.job = Len(jobs')
                /\ tasks' = Append(tasks, tasks'[Len(tasks')])
                /\ tasks'[Len(tasks')].job = Len(jobs')
                /\ tasks'[Len(tasks')].st = "scheduled"
                /\ ~tasks'[Len(tasks')].marked
          /\ response'.code # 200 => (jobs' = jobs /\ tasks' = tasks)
          /\ response'.code = 404 <=> (\A h \in HostIds : h \notin hosts)]_vars

C29_Witness ==
    /\ response.op \in SubmitOps /\ response.code = 200
    /\ response.job = Len(jobs)
    /\ jobs[response.job].status = JobStatus.PENDING
    /\ Cardinality({n \in TaskIds : tasks[n].job = response.job}) = 1
    /\ \A n \in TaskIds : tasks[n].job = response.job => tasks[n].st = "scheduled"


\* ------------------------------------------------------------------------
\* Claims about the downloaded file.

\* C30: install_splunk_uf sends an extraction command only for a file that
\* has passed validation, and a downloaded file that is an HTML page is
\* never extracted: the procedure returns the failure result of an invalid
\* archive.
C30_ExtractsOnlyValidated ==
    /\ \A i \in 1..Len(dl.sent) : dl.sent[i][1] = "tar -xzf" => dl.sent[i][2]
    /\ dl.file.kind = "html_page"
       => /\ \A i \in 1..Len(dl.sent) : dl.sent[i][1] # "tar -xzf"
          /\ dl.pc \in {"returned", "extracted"}
             => (dl.pc = "returned" /\ dl.message = InvalidArchive)


\* ------------------------------------------------------------------------
\* Claims about the custom procedures.

\* The positions of the command cmd among the commands call n sent.
Positions(n, cmd) == {i \in 1..Len(tasks[n].sent) : tasks[n].sent[i] = cmd}

\* C31: in a real run of run_bash_script that created the script file, the
\* script is executed after its creation and deleted after its execution,
\* and the delete command has been run when the procedure returns, also
\* when creating the run user failed or the script exited non-zero.
C31_ScriptDeletedOnEveryExit ==
    \A n \in TaskIds :
        (tasks[n].proc = "run_bash_script" /\ ~tasks[n].dry
           /\ \E i \in 1..Len(tasks[n].outs) : tasks[n].outs[i] = <<"create_script", "ok">>)
        => /\ \A i \in Positions(n, "exec") : \A j \in Positions(n, "create_script") : j < i
           /\ \A i \in Positions(n, "rm_script") : \A j \in Positions(n, "exec") : j < i
           /\ tasks[n].st = "returned" => Positions(n, "rm_script") # {}


\* ------------------------------------------------------------------------
\* Claims about concurrent jobs.

\* Call n went past the existence check and its extraction exited 0.
Extracted(n) ==
    \E i \in 1..Len(tasks[n].outs) : tasks[n].outs[i] = <<"extract", "ok">>

\* C32: of two install jobs of the same kind dispatched against the same
\* host, at most one goes past the existence check and extracts the
\* artifact.
C32_InstalledAtMostOnce ==
    \A n, m \in TaskIds :
        (n # m /\ tasks[n].job > 0 /\ tasks[m].job > 0
           /\ jobs[tasks[n].job].job_type = jobs[tasks[m].job].job_type
           /\ tasks[n].host = tasks[m].host)
        => ~(Extracted(n) /\ Extracted(m))


\* ------------------------------------------------------------------------
\* Claims about the time stamps of a job.

\* C33: a job has completed_at set exactly when its status is completed,
\* failed or cancelled, also when it failed because its host was not
\* found, and a job that _run_job marked running and ended has started_at
\* set.
C33_StampsMatchStatus ==
    \A j \in JobIds :
        /\ jobs[j].completed_at # None <=> jobs[j].status \in TerminalStatus
        /\ (jobs[j].status \in {JobStatus.COMPLETED, JobStatus.FAILED}
              /\ \E n \in TaskIds : tasks[n].job = j /\ tasks[n].marked)
           => jobs[j].started_at # None


\* ------------------------------------------------------------------------
\* Claims about what a dry run lists.

\* The commands list a dry run of proc returns for the parameters of a real
\* run, when its existence check ends as check_outcome.
DryRunCommands(proc, parameters, check_outcome) ==
    LET dry_parameters == Update(parameters, [is_dry_run |-> TRUE])
        steps == StepsOf(proc, "", dry_parameters)
        o == Begin(proc, "", dry_parameters, TRUE)
        r == run_command_with_timeout("check", check_outcome,
                                      IF check_outcome = "ok" THEN <<"Not", "Found">>
                                      ELSE <<>>)
    IN IF o.st = "awaiting"
       THEN Get(After(proc, steps, TRUE, o.res, o.pc, r).res, "commands", <<>>)
       ELSE Get(o.res, "commands", <<>>)

\* C34: the installation commands a real run of an installer sent, when it
\* has returned and every command after the existence check exited 0, are
\* the commands list of the dry run with the same parameters, in content
\* and order.  (The existence check and the verification, which change
\* nothing on the host, are left out of the comparison.)
C34_DryRunListsWhatRuns ==
    \A n \in TaskIds :
        (tasks[n].proc \in InstallerProcs /\ ~tasks[n].dry /\ tasks[n].st = "returned"
           /\ Len(tasks[n].outs) > 0
           /\ \A i \in 2..Len(tasks[n].outs) : tasks[n].outs[i][2] = "ok")
        => SelectSeq(tasks[n].sent, Mutating)
             = SelectSeq(DryRunCommands(tasks[n].proc, tasks[n].parameters,
                                        tasks[n].outs[1][2]), Mutating)


\* ------------------------------------------------------------------------
\* Claims about the download of install_splunk_uf.

Attempts == 1..Len(dl.attempts)

\* C35: for each URL curl is attempted before wget; the download script is
\* tried only after every URL has failed with the tools the host has; the
\* first download that succeeds is the last attempt; and when every
\* attempt failed no extraction command is sent and the procedure returns
\* a failure.
C35_DownloadFallbackOrder ==
    /\ \A i, j \in Attempts :
          (dl.attempts[i].method = "wget" /\ dl.attempts[j].method = "curl"
             /\ dl.attempts[i].url = dl.attempts[j].url) => j < i
    /\ \A i \in Attempts :
          dl.attempts[i].method = "script"
          => \A u \in 1..dl.urls :
                /\ dl.has_curl => \E j \in 1..(i - 1) :
                      dl.attempts[j] = [method |-> "curl", url |-> u, ok |-> FALSE]
                /\ dl.has_wget => \E j \in 1..(i - 1) :
                      dl.attempts[j] = [method |-> "wget", url |-> u, ok |-> FALSE]
    /\ \A i \in Attempts : dl.attempts[i].ok => i = Len(dl.attempts)
    /\ (\A i \in Attempts : ~dl.attempts[i].ok)
       => /\ \A k \in 1..Len(dl.sent) : dl.sent[k][1] # "tar -xzf"
          /\ dl.pc # "extracted"

\* ------------------------------------------------------------------------
\* repair_splunk_permissions (automation/splunk_installer.py).  Every
\* command goes through AsyncSSHClient.run, which never raises: a command
\* that could not be run comes back with return code 1.
\*   session     get_ssh_client yielded a client
\*   dir_exists  the install directory exists on the host
\*   same_group  the user and group parameters are equal
\*   sent        the commands run so far, codes their return codes

\* The commands between the directory check and the start of the service.
RepairSteps(same_group) ==
    <<"stop", "create_user", "create_group">>
    \o (IF same_group THEN <<>> ELSE <<"add_to_group">>)
    \o <<"chown", "base_perms", "bin_perms", "special_perms", "cleanup",
         "create_dirs", "final_chown">>

Ran(r, cmd, code) == [r EXCEPT !.sent = Append(@, cmd), !.codes = Append(@, code)]

RepairReturn(r, success, message) ==
    [r EXCEPT !.pc = "returned", !.result = [success |-> success, message |-> message]]

repair_splunk_permissions(session, dir_exists, same_group) ==
    /\ repair.pc = "idle"
    /\ LET r == [repair EXCEPT !.session = session, !.dir_exists = dir_exists,
                               !.same_group = same_group]
       IN repair' = IF ~session
                    THEN RepairReturn(r, FALSE, "Could not establish SSH connection")
                    ELSE [r EXCEPT !.pc = "check"]
    /\ UNCHANGED <<hosts, roles, remote, jobs, tasks, now, response, ssh, dl, auth, lookup>>

\* test -d install_dir
repair_check(ran) ==
    /\ repair.pc = "check"
    /\ LET outcome == IF ~ran THEN "timeout" ELSE IF repair.dir_exists THEN "ok" ELSE "nonzero"
           code == run("test_dir", outcome, <<>>).returncode
           r == Ran(repair, "test_dir", code)
       IN repair' = IF code # 0
                    THEN RepairReturn(r, FALSE, "Splunk installation directory not found")
                    ELSE [r EXCEPT !.pc = "steps"]
    /\ UNCHANGED <<hosts, roles, remote, jobs, tasks, now, response, ssh, dl, auth, lookup>>

\* One command between the check and the start: its return code is logged
\* at most, and the next command follows.
repair_step(outcome) ==
    /\ repair.pc = "steps"
    /\ LET steps == RepairSteps(repair.same_group)
           k == Len(repair.sent)
           r == Ran(repair, steps[k], run(steps[k], outcome, <<>>).returncode)
       IN repair' = IF k = Len(steps) THEN [r EXCEPT !.pc = "start"] ELSE r
    /\ UNCHANGED <<hosts, roles, remote, jobs, tasks, now, response, ssh, dl, auth, lookup>>

\* A start that also asks for every earlier command to have exited 0.
repair_start_all_ok(outcome) ==
    /\ repair.pc = "start"
    /\ LET code == run("start", outcome, <<>>).returncode
           r == Ran(repair, "start", code)
       IN repair' = IF code # 0 \/ \E i \in 1..Len(repair.codes) : repair.codes[i] # 0
                    THEN RepairReturn(r, FALSE, "Permission repair completed but failed to start Splunk")
                    ELSE [r EXCEPT !.pc = "status"]
    /\ UNCHANGED <<hosts, roles, remote, jobs, tasks, now, response, ssh, dl, auth, lookup>>

\* sudo -u user splunk start --no-prompt
repair_start(outcome) ==
    /\ repair.pc = "start"
    /\ LET code == run("start", outcome, <<>>).returncode
           r == Ran(repair, "start", code)
       IN repair' = IF code # 0
                    THEN RepairReturn(r, FALSE, "Permission repair completed but failed to start Splunk")
                    ELSE [r EXCEPT !.pc = "status"]
    /\ UNCHANGED <<hosts, roles, remote, jobs, tasks, now, response, ssh, dl, auth, lookup>>

\* splunk status, whose output goes into the result.
repair_status(outcome) ==
    /\ repair.pc = "status"
    /\ repair' = RepairReturn(Ran(repair, "status", run("status", outcome, <<>>).returncode),
                              TRUE, "Successfully repaired Splunk UF permissions")
    /\ UNCHANGED <<hosts, roles, remote, jobs, tasks, now, response, ssh, dl, auth, lookup>>

NextRepair ==
    \/ \E session, dir_exists, same_group \in BOOLEAN :
          repair_splunk_permissions(session, dir_exists, same_group)
    \/ \E ran \in BOOLEAN : repair_check(ran)
    \/ \E outcome \in SentOutcomes : repair_step(outcome)
    \/ \E outcome \in SentOutcomes : repair_start(outcome)
    \/ \E outcome \in SentOutcomes : repair_status(outcome)

SpecRepair == Init /\ [][NextRepair]_vars

\* The place of a command in the order stop, user and group, ownership,
\* modes, lock and pid files, start; 0 for the commands outside that list.
Phase(cmd) ==
    CASE cmd = "stop" -> 1
      [] cmd \in {"create_user", "create_group", "add_to_group"} -> 2
      [] cmd = "chown" -> 3
      [] cmd \in {"base_perms", "bin_perms", "special_perms"} -> 4
      [] cmd = "cleanup" -> 5
      [] cmd = "start" -> 6
      [] OTHER -> 0

StartCode ==
    IF \E i \in 1..Len(repair.sent) : repair.sent[i] = "start"
    THEN repair.codes[CHOOSE i \in 1..Len(repair.sent) : repair.sent[i] = "start"]
    ELSE None

SshKeyPathSettings == {"~/.ssh/id_rsa", ""}

Or(a, b) == IF a # "" THEN a ELSE b

\* create_ssh_client_from_host and __init__.
connect_begin(host_key_path, password, setting, retries) ==
    /\ auth.st = "idle"
    /\ auth' = [auth EXCEPT !.st = "connecting", !.host_key_path = host_key_path,
                            !.key_path = Or(host_key_path, setting),
                            !.password = password, !.retries_left = retries]
    /\ UNCHANGED <<hosts, roles, remote, jobs, tasks, now, response, ssh, dl, repair, lookup>>

\* The keywords of client.connect for one attempt; exists is
\* os.path.exists of the expanded key path.
connect_kwargs(c, exists) ==
    IF c.key_path # ""
    THEN IF exists
         THEN [key_filename |-> c.key_path, password |-> ""]
         ELSE [key_filename |-> "", password |-> c.password]
    ELSE [key_filename |-> "", password |-> c.password]

\* One round of the retry loop.
connect_try(exists, ok) ==
    /\ auth.st = "connecting"
    /\ auth.retries_left > 0
    /\ LET c == [auth EXCEPT !.kwargs = Append(@, connect_kwargs(auth, exists)
                                                 @@ [exists |-> exists])]
       IN auth' = IF ok THEN [c EXCEPT !.st = "connected"]
                  ELSE [c EXCEPT !.retries_left = @ - 1,
                                 !.st = IF auth.retries_left = 1 THEN "raised" ELSE @]
    /\ UNCHANGED <<hosts, roles, remote, jobs, tasks, now, response, ssh, dl, repair, lookup>>

NextAuth ==
    \/ \E host_key_path \in {"", "/keys/host"}, password \in {"", "secret"},
          setting \in SshKeyPathSettings, retries \in 1..MaxRetries :
          connect_begin(host_key_path, password, setting, retries)
    \/ \E exists, ok \in BOOLEAN : connect_try(exists, ok)

SpecAuth == Init /\ [][NextAuth]_vars

\* C37: every attempt of connect uses the key when the host has a key path
\* and the key file exists, and otherwise the password when there is one;
\* a host with a password and no key path is always tried with its
\* password.
C37_KeyThenPassword ==
    \A i \in 1..Len(auth.kwargs) :
       LET k == auth.kwargs[i]
       IN IF auth.host_key_path # "" /\ k.exists
          THEN k.key_filename = auth.host_key_path /\ k.password = ""
          ELSE auth.password # "" => (k.password = auth.password /\ k.key_filename = "")

\* ------------------------------------------------------------------------
\* get_package_download_url (automation/splunk_installer.py).  A URL is a
\* string, and "" stands for None as well as for an empty or missing URL:
\* the function tests every URL with "if url" and returns None or a
\* non-empty URL.
\*   query    how the database query ended: "found" (an active package of
\*            the type and version), "absent", "raises"
\*   package  the package found: the downloads list and the legacy field
\*   url      the value returned

MaxDownloads == 2

Architectures == {"x86_64", "arm64"}

\* The entries of the downloads JSON column; dict is FALSE for an entry
\* that is not a mapping.
DownloadEntries ==
    [dict : BOOLEAN, architecture : Architectures, download_url : {"", "url_a", "url_b"}]

Packages ==
    [downloads : UNION {[1..n -> DownloadEntries] : n \in 0..MaxDownloads},
     download_url : {"", "legacy_url"}]

\* The first loop's result: the URL of the first mapping of the
\* architecture that has one, "" when the loop ends without a return.
RECURSIVE first_url(_, _)
first_url(downloads, architecture) ==
    IF downloads = <<>> THEN ""
    ELSE IF Head(downloads).dict /\ Head(downloads).architecture = architecture
            /\ Head(downloads).download_url # ""
         THEN Head(downloads).download_url
         ELSE first_url(Tail(downloads), architecture)

\* The lookup without the second loop over the downloads.
get_package_download_url_no_fallback(query, architecture, package) ==
    IF query # "found" THEN ""
    ELSE IF first_url(package.downloads, architecture) # ""
         THEN first_url(package.downloads, architecture)
         ELSE package.download_url

get_package_download_url(query, architecture, package) ==
    IF query # "found" THEN ""
    ELSE IF first_url(package.downloads, architecture) # ""
         THEN first_url(package.downloads, architecture)
         ELSE IF architecture # "x86_64" /\ first_url(package.downloads, "x86_64") # ""
              THEN first_url(package.downloads, "x86_64")
              ELSE package.download_url

\* One call, with the query's outcome and the package drawn.
lookup_url ==
    /\ lookup.st = "idle"
    /\ \E query \in {"found", "absent", "raises"},
          architecture \in Architectures \cup {"aarch64"}, package \in Packages :
          lookup' = [st |-> "returned", query |-> query, architecture |-> architecture,
                     package |-> package,
                     url |-> get_package_download_url(query, architecture, package)]
    /\ UNCHANGED <<hosts, roles, remote, jobs, tasks, now, response, ssh, dl, repair, auth>>

NextLookup == lookup_url

SpecLookup == Init /\ [][NextLookup]_vars

\* The URLs of the download entries of an architecture.
UrlsFor(architecture) ==
    {lookup.package.downloads[i].download_url : i \in
        {i \in 1..Len(lookup.package.downloads) :
            /\ lookup.package.downloads[i].dict
            /\ lookup.package.downloads[i].architecture = architecture}} \ {""}

\* C38: for a package found, get_package_download_url returns the URL of
\* an entry of the requested architecture if one has a URL, otherwise that
\* of an x86_64 entry, otherwise the legacy download_url, otherwise None;
\* and None when no package is found or the query raises.
C38_UrlFallback ==
    lookup.st = "returned"
    => IF lookup.query # "found" THEN lookup.url = ""
       ELSE IF UrlsFor(lookup.architecture) # {} THEN lookup.url \in UrlsFor(lookup.architecture)
       ELSE IF UrlsFor("x86_64") # {} THEN lookup.url \in UrlsFor("x86_64")
       ELSE lookup.url = lookup.package.download_url

C38_Witness ==
    /\ lookup.st = "returned"
    /\ lookup.query = "found"
    /\ lookup.architecture = "aarch64"
    /\ UrlsFor("x86_64") # {}
    /\ lookup.package.download_url # ""
    /\ lookup.url \in UrlsFor("x86_64")

\* ------------------------------------------------------------------------
\* The roles of the host record.

\* The call n is a real install that returned success past its check.
InstalledFor(n, h, role) ==
    /\ tasks[n].host = h
    /\ tasks[n].proc \in InstallerProcs
    /\ RoleOf(tasks[n].proc) = role
    /\ ~tasks[n].dry
    /\ tasks[n].st = "returned"
    /\ Get(tasks[n].res, "success", FALSE)
    /\ ~Get(tasks[n].res, "skipped", FALSE)

\* C39: a dry run of an installer leaves host.roles as it was; a role is in
\* host.roles only through a real install that returned success without
\* being skipped, and at most once.
C39_RoleOnlyByRealInstall ==
    \A h \in HostIds :
       /\ \A i, j \in 1..Len(roles[h]) : roles[h][i] = roles[h][j] => i = j
       /\ \A i \in 1..Len(roles[h]) : \E n \in TaskIds : InstalledFor(n, h, roles[h][i])

\* ------------------------------------------------------------------------
\* Custom jobs by the job_type of the request: every custom job of
\* SpecScript was submitted with job_type = "bash_script".

NextScript ==
    \/ create_custom_job_of("bash_script")
    \/ \E job_id \in 1..MaxJobs : cancel_job(job_id)
    \/ \E host_id \in HostIds : delete_host(host_id)
    \/ \E n \in 1..Len(tasks) : run_job(n)
    \/ \E n \in 1..Len(tasks) : run_procedure(n)
    \/ \E n \in 1..Len(tasks) : step(n)

SpecScript == Init /\ [][NextScript]_vars

\* C40: a custom job submitted with job_type 'bash_script' is dispatched
\* as a script: the command _run_job hands to the host, or reports on a
\* dry run, is the one that writes the script file, makes it executable,
\* runs it and deletes it.
C40_ScriptJobRunsScript ==
    \A n \in TaskIds :
       tasks[n].job > 0
       => /\ \A i \in 1..Len(tasks[n].outs) : tasks[n].outs[i][1] = "script_cmd"
          /\ (tasks[n].st = "done" /\ "command" \in DOMAIN tasks[n].res)
             => tasks[n].res["command"] = "script_cmd"

====
